---- MODULE Spec2Model ----
(***************************************************************************)
(* The research-agent workflow: the command (src/cli/main.py), the         *)
(* orchestrator's three phases (src/orchestrator.py), the human plan       *)
(* review (src/hitl/plan_review.py), the per-task research executor        *)
(* (src/agents/researcher.py) and the writer/editor reflection loop        *)
(* (src/agents/writer.py, src/agents/editor.py).                           *)
(*                                                                         *)
(* One action per awaited call or prompt: the code is a single coroutine,  *)
(* so a step runs from one external call's return to the next call.        *)
(* External collaborators (planner/writer/editor LLM, search provider,     *)
(* extractors, the human) are the nondeterministic inputs of the actions.  *)
(***************************************************************************)
EXTENDS Integers, Sequences, FiniteSets, TLC

(***************************************************************************)
(* Bounds of the model.                                                    *)
(***************************************************************************)
MaxTasks == 2            \* tasks in one planner output
MaxAppend == 1           \* tasks appended in one plan edit
MaxPlanAttempts == 3     \* largest configured max_plan_attempts
MaxReflection == 3       \* largest configured max_reflection_iterations
MaxRaw == 2              \* raw results of one search, where the records are followed

(***************************************************************************)
(* Program constants.                                                      *)
(***************************************************************************)
MinScore == 1            \* EditorFeedback.score ge
MaxScore == 10           \* EditorFeedback.score le
DefaultThreshold == 7    \* Settings.approval_threshold default

None == "None"        \* an absent string (Python None)
Nothing == <<>>       \* an absent value (Python None), Some(x) when present
Some(x) == <<x>>
The(o) == o[1]

(***************************************************************************)
(* Input domains.                                                          *)
(***************************************************************************)
Queries == <<"q1", "q2", "q3", "q4">>    \* the query the planner writes for task i
Strategies == {"s1"}                    \* strategies the planner writes
EditQueries == {"new", "Skip"}          \* what the human types at "New query"
FeedbackTexts == {"more sources", ""}   \* what the human types at "Feedback"
Questions == {"Q", "Quit"}              \* what the human types at the question prompt
SavePaths == {"", "out"}                \* what the human types at the save prompt
ThresholdChoices == {DefaultThreshold}
\* scores the editor gives: the ends of the range and both sides of the threshold
Scores == {MinScore, DefaultThreshold - 1, DefaultThreshold, MaxScore}

VARIABLES
    settings,        \* Settings: max_plan_attempts, max_reflection_iterations, approval_threshold
    pc,              \* where the coroutine (or the command around it) stands
    question,        \* cli: the question typed
    exit_code,       \* cli: the process exit status, None while running
    plan_attempts,   \* _planning_phase: plan_attempts
    plan,            \* _planning_phase: plan
    decision,        \* PlanReviewer.review: decision (last one taken)
    review,          \* _planning_phase: review (the last HumanPlanReview)
    presented,       \* the plan shown by the last display_plan
    planner_output,  \* the last plan the planner returned
    replan_args,     \* the arguments of the last planner.replan call
    typed,           \* edit_plan: the answers typed at its per-task prompts
    approved_plan,   \* run: plan (what _planning_phase returned)
    task_idx,        \* _research_phase: i of enumerate(plan.tasks, 1)
    tavily_results,  \* execute_task: tavily_results (urls)
    extractor_calls, \* execute_task: the extractors called for the current task
    searched,        \* the queries sent to the search provider, in order
    findings,        \* _research_phase: findings
    arxiv_papers,    \* execute_task: arxiv_papers
    wikipedia_articles, \* execute_task: wikipedia_articles
    sources,         \* execute_task: sources
    classified,      \* execute_task: classified (the ClassifiedLinks of the result urls)
    report,          \* _writing_phase: report
    iteration,       \* _writing_phase: iteration
    feedback,        \* _writing_phase: feedback (the last EditorFeedback)
    calls,           \* number of calls issued to each collaborator
    revisions,       \* number of revise_report calls that returned
    accepted,        \* number of editor feedbacks that met an acceptance condition
    rejects,         \* number of reject decisions taken
    error            \* the exception that ended the run, None if none

vars == <<settings, pc, question, exit_code, plan_attempts, plan, decision, review,
          presented, planner_output, replan_args, typed, approved_plan, task_idx, tavily_results,
          extractor_calls, searched, findings, arxiv_papers, wikipedia_articles, sources,
          classified, report, iteration, feedback, calls, revisions, accepted, rejects, error>>

(***************************************************************************)
(* Data model (src/models/plan.py, report.py, research.py).                *)
(***************************************************************************)
\* f"task_{n}": the id string built from a number; distinct n, distinct ids.
TaskId(n) == <<"task_", n>>

ResearchTask(id, query, reasoning) == [id |-> id, query |-> query, reasoning |-> reasoning]

ResearchPlan(q, tasks, strategy) == [question |-> q, tasks |-> tasks, strategy |-> strategy]

\* faulty variant: every review carries a feedback text
HumanPlanReview_feedback(action, modified_plan, fb) ==
    [action |-> action, modified_plan |-> modified_plan,
     feedback |-> IF fb = None THEN "" ELSE fb]

HumanPlanReview(action, modified_plan, fb) ==
    [action |-> action, modified_plan |-> modified_plan, feedback |-> fb]

EditorFeedback(approved, score) == [approved |-> approved, score |-> score]

FinalReport(title, content, srcs, iterations) ==
    [title |-> title, content |-> content, sources |-> srcs, iterations |-> iterations]

\* faulty variant: every findings record carries the id "task_1"
ResearchFindings_first(task) ==
    [task_id |-> TaskId(1), query |-> task.query, sources |-> sources,
     arxiv_papers |-> arxiv_papers, wikipedia_articles |-> wikipedia_articles]

\* the findings execute_task returns for the task, from its locals
ResearchFindings(task) ==
    [task_id |-> task.id, query |-> task.query, sources |-> sources,
     arxiv_papers |-> arxiv_papers, wikipedia_articles |-> wikipedia_articles]

Range(s) == {s[i] : i \in 1 .. Len(s)}

SeqsUpTo(S, n) == UNION {[1 .. k -> S] : k \in 0 .. n}

DistinctIds(tasks) ==
    \A i, j \in 1 .. Len(tasks) : tasks[i].id = tasks[j].id => i = j

(***************************************************************************)
(* The planner LLM's outputs: plans of 0..MaxTasks tasks with the ids the  *)
(* system prompt asks for ("task_1", "task_2", ...) and any queries.       *)
(***************************************************************************)
PlannerPlans(q) ==
    {ResearchPlan(q, [i \in 1 .. k |-> ResearchTask(TaskId(i), Queries[i], "why")], st)
        : k \in 0 .. MaxTasks, st \in Strategies}

(***************************************************************************)
(* PlanReviewer.edit_plan (src/hitl/plan_review.py).                       *)
(***************************************************************************)
DELETE_WORDS == {"delete", "remove", "skip"}

\* new_query.strip().lower(), on the strings of this model
StripLower(s) ==
    CASE s = "Skip" -> "skip"
      [] s = " Remove " -> "remove"
      [] s = "Quit" -> "quit"
      [] OTHER -> s

\* the per-task answers: the query typed (Enter keeps task.query) and the
\* answer to "Delete task i?", asked only after one of the delete words
EditAnswers(task) ==
    {[new_query |-> nq, confirm |-> c] :
        nq \in {task.query} \cup EditQueries, c \in BOOLEAN}

\* faulty variant: a delete word removes the task without the confirmation
Deletes_unconfirmed(answer) == StripLower(answer.new_query) \in DELETE_WORDS

Deletes(answer) ==
    /\ StripLower(answer.new_query) \in DELETE_WORDS
    /\ answer.confirm

RECURSIVE EditTasks(_, _)
\* the first loop of edit_plan: modified_tasks after all tasks were asked
EditTasks(tasks, answers) ==
    IF tasks = <<>> THEN <<>>
    ELSE LET task == Head(tasks)
             a == Head(answers)
             rest == EditTasks(Tail(tasks), Tail(answers))
         IN  IF Deletes(a) THEN rest
             ELSE <<ResearchTask(task.id, a.new_query, task.reasoning)>> \o rest

\* faulty variant: the new id counts the task before it is appended twice
NewId_next(modified_tasks) == TaskId(Len(modified_tasks) + 2)

\* the id given to a task appended to modified_tasks
NewId(modified_tasks) == TaskId(Len(modified_tasks) + 1)

RECURSIVE AppendTasks(_, _)
\* the second loop of edit_plan: one task appended per "Add another task?" yes
AppendTasks(modified_tasks, adds) ==
    IF adds = <<>> THEN modified_tasks
    ELSE AppendTasks(
            Append(modified_tasks,
                   ResearchTask(NewId(modified_tasks), Head(adds).query, Head(adds).reasoning)),
            Tail(adds))

edit_plan(p, answers, adds) ==
    ResearchPlan(p.question, AppendTasks(EditTasks(p.tasks, answers), adds), p.strategy)

\* all answer scripts for a plan's tasks
AnswerScripts(tasks) ==
    {s \in [1 .. Len(tasks) -> UNION {EditAnswers(tasks[i]) : i \in 1 .. Len(tasks)}] :
        \A i \in 1 .. Len(tasks) :
            /\ s[i] \in EditAnswers(tasks[i])
            \* the confirmation is asked only after a delete word
            /\ StripLower(s[i].new_query) \notin DELETE_WORDS => s[i].confirm = FALSE}

AddScripts == SeqsUpTo({[query |-> "added", reasoning |-> "mine"]}, MaxAppend)

(***************************************************************************)
(* Settings (src/utils/config.py): plain ints read from the environment,   *)
(* not validated, so 0 is a value the program can run with.                *)
(***************************************************************************)
SettingsSpace ==
    [max_plan_attempts : 0 .. MaxPlanAttempts,
     max_reflection_iterations : 0 .. MaxReflection,
     approval_threshold : ThresholdChoices]

NoCalls ==
    [create_plan |-> 0, replan |-> 0, review |-> 0, search |-> 0, summary |-> 0,
     write_report |-> 0, editor |-> 0, revise |-> 0]

\* faulty variant: the call is started twice at once
Called_twice(c, name) == [c EXCEPT ![name] = @ + 2]

Called(c, name) == [c EXCEPT ![name] = @ + 1]

\* cli() before the question prompt: nothing planned, researched or written
Start ==
    /\ pc = "cli"
    /\ question = None
    /\ exit_code = Nothing
    /\ plan_attempts = 0
    /\ plan = Nothing
    /\ decision = None
    /\ review = Nothing
    /\ presented = Nothing
    /\ planner_output = Nothing
    /\ replan_args = Nothing
    /\ typed = Nothing
    /\ approved_plan = Nothing
    /\ task_idx = 0
    /\ tavily_results = <<>>
    /\ extractor_calls = {}
    /\ searched = <<>>
    /\ findings = <<>>
    /\ arxiv_papers = <<>>
    /\ wikipedia_articles = <<>>
    /\ sources = <<>>
    /\ classified = Nothing
    /\ report = Nothing
    /\ iteration = 0
    /\ feedback = Nothing
    /\ calls = NoCalls
    /\ revisions = 0
    /\ accepted = 0
    /\ rejects = 0
    /\ error = None

Init ==
    /\ settings \in SettingsSpace
    /\ Start

planning_vars == <<plan_attempts, plan, decision, review, presented, planner_output,
                   replan_args, typed, approved_plan, rejects>>
\* the records execute_task collects; Spec follows its calls, TaskSpec its records
enrichment_vars == <<arxiv_papers, wikipedia_articles, sources, classified>>
research_vars == <<task_idx, tavily_results, extractor_calls, searched, findings,
                   arxiv_papers, wikipedia_articles, sources, classified>>
writing_vars == <<report, iteration, feedback, revisions, accepted>>

\* faulty variant: the exception is swallowed and run() returns what it has
Raise_returns(e) ==
    /\ pc' = "returned"
    /\ error' = e

\* an exception leaves run(): the coroutine and its task-local values are gone
Raise(e) ==
    /\ pc' = "error"
    /\ error' = e

(***************************************************************************)
(* Orchestrator._planning_phase (src/orchestrator.py).                     *)
(***************************************************************************)
\* faulty variant: the first attempt is made whatever the limit
PlanLoopCond_once(n) == n = 0 \/ n < settings.max_plan_attempts

\* while plan_attempts < self.settings.max_plan_attempts
PlanLoopCond(n) == n < settings.max_plan_attempts

\* faulty variant: the budget test off by one (> for >=)
AttemptsExhausted_strict(n) == n > settings.max_plan_attempts

\* if plan_attempts >= self.settings.max_plan_attempts (inside the reject branch)
AttemptsExhausted(n) == n >= settings.max_plan_attempts

\* if plan is None: raise RuntimeError("Failed to create plan"), else the review
EnterReview(p) ==
    IF p = Nothing
    THEN Raise("Failed to create plan")
    ELSE /\ pc' = "review"
         /\ error' = error

\* faulty variant: every attempt starts with a create_plan call
PlanLoopHead_recreates(n, p) ==
    IF PlanLoopCond(n)
    THEN /\ plan_attempts' = n + 1
         /\ pc' = "create_plan"
         /\ error' = error
    ELSE /\ plan_attempts' = n
         /\ Raise("Unexpected end of planning phase")

\* The head of the while loop, up to the next awaited call: create_plan in the
\* first attempt, the review of the plan p in the later ones.
PlanLoopHead(n, p) ==
    IF PlanLoopCond(n)
    THEN /\ plan_attempts' = n + 1
         /\ IF n + 1 = 1
            THEN /\ pc' = "create_plan"
                 /\ error' = error
            ELSE EnterReview(p)
    ELSE /\ plan_attempts' = n
         /\ Raise("Unexpected end of planning phase")

\* cli(): the question prompt; quit, exit and q leave without a run
CliStart ==
    /\ pc = "cli"
    /\ \E q \in Questions :
        /\ question' = q
        /\ IF StripLower(q) \in {"quit", "exit", "q"}
           THEN /\ pc' = "exited"
                /\ exit_code' = Some(0)
                /\ UNCHANGED <<plan_attempts, error>>
           ELSE /\ PlanLoopHead(0, plan)
                /\ exit_code' = exit_code
    /\ UNCHANGED <<settings, plan, decision, review, presented, planner_output,
                   replan_args, typed, approved_plan, rejects, calls>>
    /\ UNCHANGED research_vars
    /\ UNCHANGED writing_vars

\* plan = await self.planner.create_plan(question); an LLM failure propagates
CreatePlan ==
    /\ pc = "create_plan"
    /\ calls' = Called(calls, "create_plan")
    /\ \/ \E p \in PlannerPlans(question) :
            /\ plan' = Some(p)
            /\ planner_output' = Some(p)
            /\ EnterReview(Some(p))
       \/ /\ Raise("llm")
          /\ UNCHANGED <<plan, planner_output>>
    /\ UNCHANGED <<settings, question, exit_code, plan_attempts, decision, review,
                   presented, replan_args, typed, approved_plan, rejects>>
    /\ UNCHANGED research_vars
    /\ UNCHANGED writing_vars

(***************************************************************************)
(* URL classification (src/tools/link_analyzer.py), on parsed URLs:        *)
(* netloc and path as urlparse gives them, lower-cased.                    *)
(***************************************************************************)
PaperUrl == [netloc |-> "arxiv.org", path |-> "/abs/1"]
ArticleUrl == [netloc |-> "en.wikipedia.org", path |-> "/wiki/a"]
WebUrl == [netloc |-> "example.com", path |-> "/p"]

\* the result lists the search provider returns: none, one of each class, all
SearchResults ==
    {<<>>, <<WebUrl>>, <<PaperUrl>>, <<ArticleUrl>>, <<PaperUrl, ArticleUrl, WebUrl>>}

ARXIV_DOMAINS == {"arxiv.org"}
ARXIV_PATTERNS == {"/abs/", "/pdf/"}
WIKIPEDIA_DOMAINS == {"wikipedia.org", "en.wikipedia.org"}
WIKIPEDIA_PATTERNS == {"/wiki/"}

\* Python's `needle in text`, on the strings of this model
Contains(text, needle) ==
    <<text, needle>> \in
        {<<"arxiv.org", "arxiv.org">>, <<"/abs/1", "/abs/">>,
         <<"en.wikipedia.org", "wikipedia.org">>,
         <<"en.wikipedia.org", "en.wikipedia.org">>, <<"/wiki/a", "/wiki/">>,
         <<"/pdf/1", "/pdf/">>, <<"/abs/1v1", "/abs/">>, <<"/wiki/A", "/wiki/">>,
         <<"wikipedia.org", "wikipedia.org">>,
         <<"[arxiv.org", "arxiv.org">>,
         <<"arxiv.org.wikipedia.org", "arxiv.org">>,
         <<"arxiv.org.wikipedia.org", "wikipedia.org">>,
         <<"/wiki/pdf/1", "/wiki/">>, <<"/wiki/pdf/1", "/pdf/">>,
         <<"arxiv.org/abs/1", "/abs/">>, <<"arxiv.org/abs/1", "arxiv.org">>}

\* str.lower(), on the strings of this model
Lower(s) ==
    CASE s = "/ABS/1" -> "/abs/1"
      [] s = "/wiki/A" -> "/wiki/a"
      [] OTHER -> s

\* a network location with "[" and no "]"
UnbalancedBracket(netloc) == netloc \in {"[arxiv.org"}

\* faulty variant: every string is parsed
urlparse_lenient(url) == Some([netloc |-> url.netloc, path |-> url.path])

\* urlparse(url): a url of this model is written as its text after "//" up to
\* the next "/" and its text from there on (all of it when there is no "//");
\* the parser raises ValueError on an unbalanced bracket, which is Nothing here
urlparse(url) ==
    IF UnbalancedBracket(url.netloc) THEN Nothing
    ELSE Some([netloc |-> url.netloc, path |-> url.path])

\* try: domain and path in lower case against the lists; except Exception: False
_is_arxiv(url) ==
    LET parsed == urlparse(url)
    IN  IF parsed = Nothing THEN FALSE
        ELSE /\ \E d \in ARXIV_DOMAINS : Contains(Lower(The(parsed).netloc), d)
             /\ \E pat \in ARXIV_PATTERNS : Contains(Lower(The(parsed).path), pat)

_is_wikipedia(url) ==
    LET parsed == urlparse(url)
    IN  IF parsed = Nothing THEN FALSE
        ELSE /\ \E d \in WIKIPEDIA_DOMAINS : Contains(Lower(The(parsed).netloc), d)
             /\ \E pat \in WIKIPEDIA_PATTERNS : Contains(Lower(The(parsed).path), pat)

\* faulty variant: the lists of the last result are shared by the next one
ClassifiedLinks_shared ==
    IF classified = Nothing
    THEN [arxiv |-> <<>>, wikipedia |-> <<>>, other |-> <<>>]
    ELSE classified[Len(classified)]

\* ClassifiedLinks(): three new empty lists
ClassifiedLinks == [arxiv |-> <<>>, wikipedia |-> <<>>, other |-> <<>>]

\* result = ClassifiedLinks(), then each url appended to the list of its class
classify(urls) ==
    LET result == ClassifiedLinks
    IN  [arxiv |-> result.arxiv \o SelectSeq(urls, _is_arxiv),
         wikipedia |-> result.wikipedia
                        \o SelectSeq(urls, LAMBDA u : ~_is_arxiv(u) /\ _is_wikipedia(u)),
         other |-> result.other
                    \o SelectSeq(urls, LAMBDA u : ~_is_arxiv(u) /\ ~_is_wikipedia(u))]

(***************************************************************************)
(* Orchestrator._research_phase and ResearcherAgent.execute_task.          *)
(***************************************************************************)
\* _writing_phase up to its first awaited call, write_report
\* faulty variant: the run waits after the research phase and never goes on
EnterWriting_stalls ==
    /\ pc' = "research_done"

EnterWriting ==
    /\ pc' = "write_report"

\* faulty variant: the loop leaves before the last task
ResearchLoop_early(p, i) ==
    IF i < Len(p.tasks)
    THEN /\ task_idx' = i
         /\ pc' = "search"
    ELSE /\ task_idx' = task_idx
         /\ EnterWriting

\* for i, task in enumerate(plan.tasks, 1): the step to task i, or past the
\* loop into the writing phase
ResearchLoop(p, i) ==
    IF i <= Len(p.tasks)
    THEN /\ task_idx' = i
         /\ pc' = "search"
    ELSE /\ task_idx' = task_idx
         /\ EnterWriting

\* _planning_phase returns p: run() goes on to _research_phase(p)
ReturnPlan(p) ==
    /\ approved_plan' = Some(p)
    /\ ResearchLoop(p, 1)
    /\ error' = error

(***************************************************************************)
(* PlanReviewer.review and the branch of _planning_phase that consumes it. *)
(* Each action is one review round: display_plan, get_decision and what    *)
(* the decision leads to, up to the next awaited call.                     *)
(***************************************************************************)
\* display_plan(plan) and the decision d taken on it
Round(d) ==
    /\ pc = "review"
    /\ calls' = Called(calls, "review")
    /\ presented' = plan
    /\ decision' = d
    /\ rejects' = IF d = "reject" THEN rejects + 1 ELSE rejects

\* faulty variant: quit does not raise and the plan on display is used
ReviewQuit_continues ==
    /\ Round("quit")
    /\ ReturnPlan(The(plan))
    /\ UNCHANGED <<settings, question, exit_code, plan_attempts, plan, review,
                   planner_output, replan_args, typed>>
    /\ UNCHANGED <<tavily_results, extractor_calls, searched, findings>>
    /\ UNCHANGED enrichment_vars
    /\ UNCHANGED writing_vars

\* decision == "quit": raise KeyboardInterrupt, no HumanPlanReview is built
ReviewQuit ==
    /\ Round("quit")
    /\ pc' = "aborted"
    /\ UNCHANGED <<settings, question, exit_code, plan_attempts, plan, review,
                   planner_output, replan_args, typed, approved_plan, error>>
    /\ UNCHANGED research_vars
    /\ UNCHANGED writing_vars

\* faulty variant: the returned plan loses its last task
ApproveResult_short(p) ==
    ResearchPlan(p.question, SubSeq(p.tasks, 1, Len(p.tasks) - 1), p.strategy)

\* what _planning_phase returns for an approve review of plan p
ApproveResult(p) == p

\* decision == "approve": return plan
ReviewApprove ==
    /\ Round("approve")
    /\ review' = Some(HumanPlanReview("approve", Nothing, None))
    /\ ReturnPlan(ApproveResult(The(plan)))
    /\ UNCHANGED <<settings, question, exit_code, plan_attempts, plan, planner_output,
                   replan_args, typed>>
    /\ UNCHANGED <<tavily_results, extractor_calls, searched, findings>>
    /\ UNCHANGED enrichment_vars
    /\ UNCHANGED writing_vars

\* faulty variant: the plan as displayed is returned, the edits are lost
ModifyResult_original(r, p) == p

\* faulty variant: an edited plan without tasks counts as no edited plan
ModifyResult_nonempty(r, p) ==
    IF r.modified_plan # Nothing /\ The(r.modified_plan).tasks # <<>>
    THEN The(r.modified_plan)
    ELSE p

\* what _planning_phase returns for a modify review of plan p
ModifyResult(r, p) == IF r.modified_plan # Nothing THEN The(r.modified_plan) ELSE p

\* decision == "modify": edit_plan, then return review.modified_plan
ReviewModify ==
    /\ Round("modify")
    /\ \E answers \in AnswerScripts(The(plan).tasks), adds \in AddScripts :
        LET r == HumanPlanReview("modify", Some(edit_plan(The(plan), answers, adds)), None)
        IN  /\ review' = Some(r)
            /\ ReturnPlan(ModifyResult(r, The(plan)))
    /\ UNCHANGED <<settings, question, exit_code, plan_attempts, plan, planner_output,
                   replan_args, typed>>
    /\ UNCHANGED <<tavily_results, extractor_calls, searched, findings>>
    /\ UNCHANGED enrichment_vars
    /\ UNCHANGED writing_vars

\* decision == "reject": the feedback prompt, then either the budget error or
\* on to the replan call
ReviewReject ==
    /\ Round("reject")
    /\ \E fb \in FeedbackTexts :
        review' = Some(HumanPlanReview("reject", Nothing, fb))
    /\ IF AttemptsExhausted(plan_attempts)
       THEN Raise("Maximum plan attempts exceeded")
       ELSE /\ pc' = "replan"
            /\ error' = error
    /\ UNCHANGED <<settings, question, exit_code, plan_attempts, plan, planner_output,
                   replan_args, typed, approved_plan>>
    /\ UNCHANGED research_vars
    /\ UNCHANGED writing_vars

\* faulty variant: the feedback of the round is not passed on
ReplanFeedback_dropped(r) == ""

\* review.feedback or ""
ReplanFeedback(r) == IF r.feedback \in {None, ""} THEN "" ELSE r.feedback

\* plan = await self.planner.replan(question, review.feedback or ""), then the
\* loop head again
Replan ==
    /\ pc = "replan"
    /\ calls' = Called(calls, "replan")
    /\ replan_args' = Some(<<question, ReplanFeedback(The(review))>>)
    /\ \/ \E p \in PlannerPlans(question) :
            /\ plan' = Some(p)
            /\ planner_output' = Some(p)
            /\ PlanLoopHead(plan_attempts, Some(p))
       \/ /\ Raise("llm")
          /\ UNCHANGED <<plan, planner_output, plan_attempts>>
    /\ UNCHANGED <<settings, question, exit_code, decision, review, presented, typed,
                   approved_plan, rejects>>
    /\ UNCHANGED research_vars
    /\ UNCHANGED writing_vars

\* faulty variant: every pass of the loop works on the last task of the plan
CurrentTask_last == The(approved_plan).tasks[Len(The(approved_plan).tasks)]

\* faulty variant: every task is researched with the first task's query
CurrentTask_first == The(approved_plan).tasks[1]

\* the task execute_task is working on
CurrentTask == The(approved_plan).tasks[task_idx]

\* faulty variant: the paper extractor is called whatever the search returned
AfterSearch_always(results) == "extract_papers"

\* faulty variant: the encyclopedia articles are extracted before the papers
AfterSearch_wikifirst(results) ==
    IF classify(results).wikipedia # <<>> THEN "extract_articles"
    ELSE IF classify(results).arxiv # <<>> THEN "extract_papers"
    ELSE "summarize"

\* after the search: the first enrichment whose class is not empty, else the summary
AfterSearch(results) ==
    IF classify(results).arxiv # <<>> THEN "extract_papers"
    ELSE IF classify(results).wikipedia # <<>> THEN "extract_articles"
    ELSE "summarize"

\* after extract_papers
AfterPapers(results) ==
    IF classify(results).wikipedia # <<>> THEN "extract_articles" ELSE "summarize"

\* faulty variant: a provider failure is noted and the task goes on without
\* results
Search_continues ==
    /\ pc = "search"
    /\ calls' = Called(calls, "search")
    /\ searched' = Append(searched, CurrentTask.query)
    /\ \/ \E results \in SearchResults :
            /\ tavily_results' = results
            /\ pc' = AfterSearch(results)
            /\ error' = error
       \/ /\ error' = "search"
          /\ pc' = "summarize"
          /\ tavily_results' = <<>>
    /\ UNCHANGED <<settings, question, exit_code, task_idx, extractor_calls, findings>>
    /\ UNCHANGED enrichment_vars
    /\ UNCHANGED planning_vars
    /\ UNCHANGED writing_vars

\* tavily_results = self.tavily.search_to_tavily_results(task.query); a
\* provider failure propagates
Search ==
    /\ pc = "search"
    /\ calls' = Called(calls, "search")
    /\ searched' = Append(searched, CurrentTask.query)
    /\ \/ \E results \in SearchResults :
            /\ tavily_results' = results
            /\ classified' = Some(classify(results))
            /\ pc' = AfterSearch(results)
            /\ error' = error
       \/ /\ Raise("search")
          /\ tavily_results' = <<>>
          /\ classified' = Nothing
    /\ UNCHANGED <<settings, question, exit_code, task_idx, extractor_calls, findings>>
    /\ UNCHANGED <<arxiv_papers, wikipedia_articles, sources>>
    /\ UNCHANGED planning_vars
    /\ UNCHANGED writing_vars

\* arxiv_papers = await self.arxiv.extract_papers(classified.arxiv); the fetch
\* is not guarded, so an exception of the client propagates
ExtractPapers ==
    /\ pc = "extract_papers"
    /\ extractor_calls' = extractor_calls \cup {"arxiv"}
    /\ \/ /\ pc' = AfterPapers(tavily_results)
          /\ error' = error
          /\ UNCHANGED <<tavily_results, classified>>
       \/ /\ Raise("enrichment")
          /\ tavily_results' = <<>>
          /\ classified' = Nothing
    /\ UNCHANGED <<settings, question, exit_code, task_idx, searched, findings, calls>>
    /\ UNCHANGED <<arxiv_papers, wikipedia_articles, sources>>
    /\ UNCHANGED planning_vars
    /\ UNCHANGED writing_vars

\* wikipedia_articles = await self.wikipedia.extract_articles(classified.wikipedia)
ExtractArticles ==
    /\ pc = "extract_articles"
    /\ extractor_calls' = extractor_calls \cup {"wikipedia"}
    /\ \/ /\ pc' = "summarize"
          /\ error' = error
          /\ UNCHANGED <<tavily_results, classified>>
       \/ /\ Raise("enrichment")
          /\ tavily_results' = <<>>
          /\ classified' = Nothing
    /\ UNCHANGED <<settings, question, exit_code, task_idx, searched, findings, calls>>
    /\ UNCHANGED <<arxiv_papers, wikipedia_articles, sources>>
    /\ UNCHANGED planning_vars
    /\ UNCHANGED writing_vars

\* summary_result = await self.run(prompt); the findings are appended and the
\* loop goes to the next task
Summarize ==
    /\ pc = "summarize"
    /\ calls' = Called(calls, "summary")
    /\ \/ /\ findings' = Append(findings, ResearchFindings(CurrentTask))
          /\ tavily_results' = <<>>
          /\ classified' = Nothing
          /\ extractor_calls' = {}
          /\ ResearchLoop(The(approved_plan), task_idx + 1)
          /\ error' = error
       \/ /\ Raise("llm")
          /\ tavily_results' = <<>>
          /\ classified' = Nothing
          /\ UNCHANGED <<findings, task_idx, extractor_calls>>
    /\ UNCHANGED <<settings, question, exit_code, searched>>
    /\ UNCHANGED <<arxiv_papers, wikipedia_articles, sources>>
    /\ UNCHANGED planning_vars
    /\ UNCHANGED writing_vars

(***************************************************************************)
(* Orchestrator._writing_phase, WriterAgent and EditorAgent.               *)
(***************************************************************************)
\* faulty variant: only the sources of the first finding are collected
AllSources_first(fs) == IF fs = <<>> THEN <<>> ELSE Head(fs).sources

\* all_sources: for finding in findings: all_sources.extend(finding.sources)
RECURSIVE AllSources(_)
AllSources(fs) == IF fs = <<>> THEN <<>> ELSE Head(fs).sources \o AllSources(Tail(fs))

\* WriterAgent.write_report: the FinalReport built from the draft
write_report(fs, draft) == FinalReport(draft.title, draft.content, AllSources(fs), 1)

\* faulty variant: the revision keeps the iteration count
revise_report_same(current_report, draft) ==
    FinalReport(draft.title, draft.content, current_report.sources,
                current_report.iterations)

\* faulty variant: the revision loses the sources
revise_report_bare(current_report, draft) ==
    FinalReport(draft.title, draft.content, <<>>, current_report.iterations + 1)

\* WriterAgent.revise_report: the FinalReport built from the revision
revise_report(current_report, draft) ==
    FinalReport(draft.title, draft.content, current_report.sources,
                current_report.iterations + 1)

\* faulty variant: the loop gives up one iteration early
ReflectLoopCond_short(i) == i + 1 < settings.max_reflection_iterations

\* faulty variant: the loop body runs at least once (a do-while)
ReflectLoopCond_once(i) == i = 0 \/ i < settings.max_reflection_iterations

\* while iteration < self.settings.max_reflection_iterations
ReflectLoopCond(i) == i < settings.max_reflection_iterations

\* faulty variant: both acceptance conditions required
Accepts_both(fb) == fb.approved /\ fb.score >= settings.approval_threshold

\* if feedback.approved / if feedback.score >= self.settings.approval_threshold
Accepts(fb) == fb.approved \/ fb.score >= settings.approval_threshold

\* faulty variant: the budget test off by one (> for >=)
IterationsExhausted_strict(i) == i > settings.max_reflection_iterations

\* if iteration >= self.settings.max_reflection_iterations
IterationsExhausted(i) == i >= settings.max_reflection_iterations

\* the head of the reflection loop: on to the editor, or return report
ReflectLoopHead(i) ==
    IF ReflectLoopCond(i)
    THEN /\ iteration' = i + 1
         /\ pc' = "editor"
    ELSE /\ iteration' = i
         /\ pc' = "returned"

\* the content of the n-th output of the writer LLM
Draft(n) == [title |-> <<"title", n>>, content |-> <<"draft", n>>]

\* report = await self.writer.write_report(question, findings)
WriteReport ==
    /\ pc = "write_report"
    /\ calls' = Called(calls, "write_report")
    /\ \/ /\ report' = Some(write_report(findings, Draft(1)))
          /\ ReflectLoopHead(0)
          /\ error' = error
       \/ /\ Raise("llm")
          /\ UNCHANGED <<report, iteration>>
    /\ UNCHANGED <<settings, question, exit_code, feedback, revisions, accepted>>
    /\ UNCHANGED planning_vars
    /\ UNCHANGED research_vars

\* faulty variant: an accepting feedback does not stop the loop
AfterFeedback_ignores(fb, i) ==
    IF IterationsExhausted(i) THEN "returned" ELSE "revise"

\* faulty variant: the budget test after the feedback is missing
AfterFeedback_revises(fb, i) ==
    IF Accepts(fb) THEN "returned" ELSE "revise"

\* what the loop does with the feedback fb of iteration i
AfterFeedback(fb, i) ==
    IF Accepts(fb) THEN "returned"
    ELSE IF IterationsExhausted(i) THEN "returned"
    ELSE "revise"

\* feedback = await self.editor.review(question, report.content) and the checks
EditorReview ==
    /\ pc = "editor"
    /\ calls' = Called(calls, "editor")
    /\ \/ \E approved \in BOOLEAN, score \in Scores :
            LET fb == EditorFeedback(approved, score)
            IN  /\ feedback' = Some(fb)
                /\ accepted' = IF fb.approved \/ fb.score >= settings.approval_threshold
                               THEN accepted + 1 ELSE accepted
                /\ pc' = AfterFeedback(fb, iteration)
                /\ error' = error
       \/ /\ Raise("llm")
          /\ UNCHANGED <<feedback, accepted>>
    /\ UNCHANGED <<settings, question, exit_code, report, iteration, revisions>>
    /\ UNCHANGED planning_vars
    /\ UNCHANGED research_vars

\* report = await self.writer.revise_report(question, report, feedback_text)
Revise ==
    /\ pc = "revise"
    /\ calls' = Called(calls, "revise")
    /\ \/ /\ report' = Some(revise_report(The(report), Draft(revisions + 2)))
          /\ revisions' = revisions + 1
          /\ ReflectLoopHead(iteration)
          /\ error' = error
       \/ /\ Raise("llm")
          /\ UNCHANGED <<report, revisions, iteration>>
    /\ UNCHANGED <<settings, question, exit_code, feedback, accepted>>
    /\ UNCHANGED planning_vars
    /\ UNCHANGED research_vars

(***************************************************************************)
(* cli(): what follows asyncio.run(orchestrator.run(question)).            *)
(***************************************************************************)
\* except KeyboardInterrupt: sys.exit(0)
ExitAborted ==
    /\ pc = "aborted"
    /\ exit_code = Nothing
    /\ exit_code' = Some(0)
    /\ UNCHANGED <<settings, pc, question, calls, error>>
    /\ UNCHANGED planning_vars
    /\ UNCHANGED research_vars
    /\ UNCHANGED writing_vars

\* faulty variant: the error handler exits with status 0
ExitError_zero ==
    /\ pc = "error"
    /\ exit_code = Nothing
    /\ exit_code' = Some(0)
    /\ UNCHANGED <<settings, pc, question, calls, error>>
    /\ UNCHANGED planning_vars
    /\ UNCHANGED research_vars
    /\ UNCHANGED writing_vars

\* except Exception: sys.exit(1)
ExitError ==
    /\ pc = "error"
    /\ exit_code = Nothing
    /\ exit_code' = Some(1)
    /\ UNCHANGED <<settings, pc, question, calls, error>>
    /\ UNCHANGED planning_vars
    /\ UNCHANGED research_vars
    /\ UNCHANGED writing_vars

\* the save prompt: Enter skips, a path is written; a failed write is caught
\* by except Exception
SaveAndExit ==
    /\ pc = "returned"
    /\ exit_code = Nothing
    /\ \E save_path \in SavePaths, written \in BOOLEAN :
        exit_code' = IF save_path # "" /\ ~written THEN Some(1) ELSE Some(0)
    /\ UNCHANGED <<settings, pc, question, calls, error>>
    /\ UNCHANGED planning_vars
    /\ UNCHANGED research_vars
    /\ UNCHANGED writing_vars

Next ==
    \/ CliStart
    \/ CreatePlan
    \/ ReviewQuit
    \/ ReviewApprove
    \/ ReviewModify
    \/ ReviewReject
    \/ Replan
    \/ Search
    \/ ExtractPapers
    \/ ExtractArticles
    \/ Summarize
    \/ WriteReport
    \/ EditorReview
    \/ Revise
    \/ ExitAborted
    \/ ExitError
    \/ SaveAndExit

Spec == Init /\ [][Next]_vars

(***************************************************************************)
(* ResearcherAgent.execute_task with the records it moves: the first task  *)
(* of an approved plan, the raw results of its search, the papers and      *)
(* articles fetched for them and the merged sources                        *)
(* (src/agents/researcher.py, src/tools/arxiv.py, src/tools/wikipedia.py). *)
(***************************************************************************)
\* the PDF link of the paper PaperUrl names
PaperPdfUrl == [netloc |-> "arxiv.org", path |-> "/pdf/1"]
\* paper.entry_id as the arXiv API writes it, with the version
PaperEntryId == [netloc |-> "arxiv.org", path |-> "/abs/1v1"]
\* page.fullurl as the Wikipedia API writes it
ArticleFullUrl == [netloc |-> "en.wikipedia.org", path |-> "/wiki/A"]

\* the urls the search provider returns
RawUrls == {PaperUrl, PaperPdfUrl, ArticleUrl, WebUrl}

TavilyResult(url) ==
    [url |-> url, title |-> <<"result", url.path>>, content |-> <<"snippet", url.path>>]

ArXivPaper(arxiv_id, url) ==
    [arxiv_id |-> arxiv_id, url |-> url, title |-> <<"paper", arxiv_id>>,
     abstract |-> <<"abstract", arxiv_id>>]

WikiArticle(title, url) ==
    [title |-> <<"article", title>>, url |-> url, summary |-> <<"summary", title>>]

EnrichedSource(source_type, url, title, content) ==
    [source_type |-> source_type, url |-> url, title |-> title, content |-> content]

EnrichedFindings(task, srcs, papers, articles) ==
    [task_id |-> task.id, query |-> task.query, sources |-> srcs,
     arxiv_papers |-> papers, wikipedia_articles |-> articles]

\* the result lists of one search: any urls in any order, repeats included,
\* since search_to_tavily_results copies the response items as they come
RawResultLists == SeqsUpTo({TavilyResult(u) : u \in RawUrls}, MaxRaw)

\* {p.url for p in records}
UrlsOf(records) == {records[i].url : i \in 1 .. Len(records)}

\* urls = [r.url for r in tavily_results]
UrlList(records) == [i \in 1 .. Len(records) |-> records[i].url]

\* the part of the path after /abs/ or /pdf/, None if there is none
extract_arxiv_id(url) ==
    IF url.path \in {"/abs/1", "/pdf/1"} THEN Some("1")
    ELSE IF url.path = "/abs/1v1" THEN Some("1v1")
    ELSE Nothing

\* the part of the path after /wiki/, None if there is none
extract_wikipedia_title(url) ==
    IF url.path = "/wiki/a" THEN Some("a")
    ELSE IF url.path = "/wiki/A" THEN Some("A")
    ELSE Nothing

\* what _fetch_paper returns when the client answers: None for no result,
\* else the paper under the entry id the API gives
FetchedPapers(paper_id) ==
    {Nothing} \cup {Some(ArXivPaper(paper_id, e)) : e \in {PaperUrl, PaperEntryId}}

\* what _fetch_article returns when the API answers: None for a missing page
FetchedArticles(title) ==
    {Nothing} \cup {Some(WikiArticle(title, f)) : f \in {ArticleUrl, ArticleFullUrl}}

\* the answers of the arXiv client to the fetches extract_papers makes for urls
PaperFetches(urls) ==
    {fetched \in [1 .. Len(urls) -> UNION {FetchedPapers(i) : i \in {"1", "1v1"}}] :
        \A i \in 1 .. Len(urls) :
            LET paper_id == extract_arxiv_id(urls[i])
            IN  fetched[i] \in (IF paper_id = Nothing THEN {Nothing}
                                ELSE FetchedPapers(The(paper_id)))}

\* the answers of the Wikipedia API to the fetches extract_articles makes
ArticleFetches(urls) ==
    {fetched \in [1 .. Len(urls) -> UNION {FetchedArticles(t) : t \in {"a", "A"}}] :
        \A i \in 1 .. Len(urls) :
            LET title == extract_wikipedia_title(urls[i])
            IN  fetched[i] \in (IF title = Nothing THEN {Nothing}
                                ELSE FetchedArticles(The(title)))}

\* for url in urls: if paper_id: paper = fetch; if paper: papers.append(paper)
RECURSIVE extract_papers(_, _, _)
extract_papers(urls, fetched, i) ==
    IF i > Len(urls) THEN <<>>
    ELSE IF extract_arxiv_id(urls[i]) # Nothing /\ fetched[i] # Nothing
         THEN <<The(fetched[i])>> \o extract_papers(urls, fetched, i + 1)
         ELSE extract_papers(urls, fetched, i + 1)

\* for url in urls: if title: article = fetch; if article: articles.append(article)
RECURSIVE extract_articles(_, _, _)
extract_articles(urls, fetched, i) ==
    IF i > Len(urls) THEN <<>>
    ELSE IF extract_wikipedia_title(urls[i]) # Nothing /\ fetched[i] # Nothing
         THEN <<The(fetched[i])>> \o extract_articles(urls, fetched, i + 1)
         ELSE extract_articles(urls, fetched, i + 1)

\* next(p for p in records if p.url == url)
FirstWithUrl(records, url) ==
    records[CHOOSE i \in 1 .. Len(records) :
                /\ records[i].url = url
                /\ \A j \in 1 .. (i - 1) : records[j].url # url]

\* faulty variant: the raw result is kept as it is, enriched or not
RawSource_web(result, papers, articles) ==
    EnrichedSource("web", result.url, result.title, result.content)

\* the source one raw result becomes (the body of the loop over tavily_results)
RawSource(result, papers, articles) ==
    IF result.url \in UrlsOf(papers)
    THEN LET paper == FirstWithUrl(papers, result.url)
         IN  EnrichedSource("arxiv", result.url, paper.title, paper.abstract)
    ELSE IF result.url \in UrlsOf(articles)
    THEN LET article == FirstWithUrl(articles, result.url)
         IN  EnrichedSource("wikipedia", result.url, article.title, article.summary)
    ELSE EnrichedSource("web", result.url, result.title, result.content)

\* faulty variant: every paper is appended, in the sources already or not
AppendPapers_all(srcs, papers) ==
    srcs \o [i \in 1 .. Len(papers) |->
                EnrichedSource("arxiv", papers[i].url, papers[i].title, papers[i].abstract)]

\* for paper in arxiv_papers: if paper.url not in [s.url for s in sources]: append
RECURSIVE AppendPapers(_, _)
AppendPapers(srcs, papers) ==
    IF papers = <<>> THEN srcs
    ELSE LET paper == Head(papers)
         IN  AppendPapers(
                IF paper.url \in UrlsOf(srcs) THEN srcs
                ELSE Append(srcs, EnrichedSource("arxiv", paper.url, paper.title,
                                                 paper.abstract)),
                Tail(papers))

\* faulty variant: every article is appended, in the sources already or not
AppendArticles_all(srcs, articles) ==
    srcs \o [i \in 1 .. Len(articles) |->
                EnrichedSource("wikipedia", articles[i].url, articles[i].title,
                               articles[i].summary)]

\* for article in wikipedia_articles: if article.url not in [...]: append
RECURSIVE AppendArticles(_, _)
AppendArticles(srcs, articles) ==
    IF articles = <<>> THEN srcs
    ELSE LET article == Head(articles)
         IN  AppendArticles(
                IF article.url \in UrlsOf(srcs) THEN srcs
                ELSE Append(srcs, EnrichedSource("wikipedia", article.url, article.title,
                                                 article.summary)),
                Tail(articles))

_build_enriched_sources(results, papers, articles) ==
    AppendArticles(
        AppendPapers([i \in 1 .. Len(results) |-> RawSource(results[i], papers, articles)],
                     papers),
        articles)

\* a one-task plan of the planner
TaskPlan == ResearchPlan("Q", <<ResearchTask(TaskId(1), Queries[1], "why")>>, "s1")

\* the state in which _research_phase calls execute_task for the first task:
\* TaskPlan created, shown once and approved
TaskInit ==
    /\ settings = [max_plan_attempts |-> 1, max_reflection_iterations |-> 1,
                   approval_threshold |-> DefaultThreshold]
    /\ pc = "search"
    /\ question = "Q"
    /\ exit_code = Nothing
    /\ plan_attempts = 1
    /\ plan = Some(TaskPlan)
    /\ decision = "approve"
    /\ review = Some(HumanPlanReview("approve", Nothing, None))
    /\ presented = Some(TaskPlan)
    /\ planner_output = Some(TaskPlan)
    /\ replan_args = Nothing
    /\ typed = Nothing
    /\ approved_plan = Some(TaskPlan)
    /\ task_idx = 1
    /\ tavily_results = <<>>
    /\ extractor_calls = {}
    /\ searched = <<>>
    /\ findings = <<>>
    /\ arxiv_papers = <<>>
    /\ wikipedia_articles = <<>>
    /\ sources = <<>>
    /\ classified = Nothing
    /\ report = Nothing
    /\ iteration = 0
    /\ feedback = Nothing
    /\ calls = [NoCalls EXCEPT !.create_plan = 1, !.review = 1]
    /\ revisions = 0
    /\ accepted = 0
    /\ rejects = 0
    /\ error = None

\* the step to the next awaited call; the sources are built on the way to the
\* summary call
TaskStep(next_pc, results, papers, articles) ==
    /\ pc' = next_pc
    /\ sources' = IF next_pc = "summarize"
                  THEN _build_enriched_sources(results, papers, articles)
                  ELSE sources

\* tavily_results = self.tavily.search_to_tavily_results(task.query), classify
ExecuteTaskSearch ==
    /\ pc = "search"
    /\ calls' = Called(calls, "search")
    /\ searched' = Append(searched, CurrentTask.query)
    /\ \/ \E results \in RawResultLists :
            /\ tavily_results' = results
            /\ classified' = Some(classify(UrlList(results)))
            /\ TaskStep(AfterSearch(UrlList(results)), results, <<>>, <<>>)
            /\ error' = error
       \/ /\ Raise("search")
          /\ UNCHANGED <<tavily_results, sources, classified>>
    /\ UNCHANGED <<settings, question, exit_code, task_idx, extractor_calls, findings,
                   arxiv_papers, wikipedia_articles>>
    /\ UNCHANGED planning_vars
    /\ UNCHANGED writing_vars

\* arxiv_papers = await self.arxiv.extract_papers(classified.arxiv): a fetch
\* that finds nothing drops its url, a fetch that raises ends the task
ExecuteTaskPapers ==
    /\ pc = "extract_papers"
    /\ extractor_calls' = extractor_calls \cup {"arxiv"}
    /\ LET urls == classify(UrlList(tavily_results)).arxiv
       IN  \/ \E fetched \in PaperFetches(urls) :
                LET papers == extract_papers(urls, fetched, 1)
                IN  /\ arxiv_papers' = papers
                    /\ TaskStep(AfterPapers(UrlList(tavily_results)), tavily_results,
                                papers, <<>>)
                    /\ error' = error
           \/ /\ Raise("enrichment")
              /\ UNCHANGED <<arxiv_papers, sources>>
    /\ UNCHANGED <<settings, question, exit_code, task_idx, tavily_results, searched,
                   findings, wikipedia_articles, calls, classified>>
    /\ UNCHANGED planning_vars
    /\ UNCHANGED writing_vars

\* wikipedia_articles = await self.wikipedia.extract_articles(classified.wikipedia)
ExecuteTaskArticles ==
    /\ pc = "extract_articles"
    /\ extractor_calls' = extractor_calls \cup {"wikipedia"}
    /\ LET urls == classify(UrlList(tavily_results)).wikipedia
       IN  \/ \E fetched \in ArticleFetches(urls) :
                LET articles == extract_articles(urls, fetched, 1)
                IN  /\ wikipedia_articles' = articles
                    /\ TaskStep("summarize", tavily_results, arxiv_papers, articles)
                    /\ error' = error
           \/ /\ Raise("enrichment")
              /\ UNCHANGED <<wikipedia_articles, sources>>
    /\ UNCHANGED <<settings, question, exit_code, task_idx, tavily_results, searched,
                   findings, arxiv_papers, calls, classified>>
    /\ UNCHANGED planning_vars
    /\ UNCHANGED writing_vars

\* summary_result = await self.run(prompt); return ResearchFindings(...)
ExecuteTaskSummary ==
    /\ pc = "summarize"
    /\ calls' = Called(calls, "summary")
    /\ \/ /\ findings' = Append(findings, EnrichedFindings(CurrentTask, sources,
                                                          arxiv_papers, wikipedia_articles))
          /\ ResearchLoop(The(approved_plan), task_idx + 1)
          /\ error' = error
       \/ /\ Raise("llm")
          /\ UNCHANGED <<findings, task_idx>>
    /\ UNCHANGED <<settings, question, exit_code, tavily_results, extractor_calls, searched,
                   arxiv_papers, wikipedia_articles, sources, classified>>
    /\ UNCHANGED planning_vars
    /\ UNCHANGED writing_vars

TaskNext ==
    \/ ExecuteTaskSearch
    \/ ExecuteTaskPapers
    \/ ExecuteTaskArticles
    \/ ExecuteTaskSummary

TaskSpec == TaskInit /\ [][TaskNext]_vars



(***************************************************************************)
(* LinkAnalyzer.classify on its own (src/tools/link_analyzer.py): the      *)
(* point of execute_task where the search has returned and the result urls *)
(* are classified, for result lists over a wider set of urls.              *)
(***************************************************************************)
EmptyUrl == [netloc |-> "", path |-> ""]
\* https://[arxiv.org/abs/1
MalformedUrl == [netloc |-> "[arxiv.org", path |-> "/abs/1"]
UpperCaseUrl == [netloc |-> "arxiv.org", path |-> "/ABS/1"]
BareWikiUrl == [netloc |-> "wikipedia.org", path |-> "/wiki/a"]
\* both hosts and both kinds of path in one url
BothUrl == [netloc |-> "arxiv.org.wikipedia.org", path |-> "/wiki/pdf/1"]
ListingUrl == [netloc |-> "arxiv.org", path |-> "/list/1"]
\* arxiv.org/abs/1, without scheme and "//"
SchemelessUrl == [netloc |-> "", path |-> "arxiv.org/abs/1"]
WikiIndexUrl == [netloc |-> "en.wikipedia.org", path |-> "/w/index"]
AbsElsewhereUrl == [netloc |-> "example.com", path |-> "/abs/1"]

ClassifyUrls ==
    {PaperUrl, PaperPdfUrl, ArticleUrl, WebUrl, EmptyUrl, MalformedUrl, UpperCaseUrl,
     BareWikiUrl, BothUrl, ListingUrl, SchemelessUrl, WikiIndexUrl, AbsElsewhereUrl}

\* execute_task of the first task after its search call has returned
ClassifyInit ==
    /\ settings = [max_plan_attempts |-> 1, max_reflection_iterations |-> 1,
                   approval_threshold |-> DefaultThreshold]
    /\ pc = "classify"
    /\ question = "Q"
    /\ exit_code = Nothing
    /\ plan_attempts = 1
    /\ plan = Some(TaskPlan)
    /\ decision = "approve"
    /\ review = Some(HumanPlanReview("approve", Nothing, None))
    /\ presented = Some(TaskPlan)
    /\ planner_output = Some(TaskPlan)
    /\ replan_args = Nothing
    /\ typed = Nothing
    /\ approved_plan = Some(TaskPlan)
    /\ task_idx = 1
    /\ tavily_results \in SeqsUpTo({TavilyResult(u) : u \in ClassifyUrls}, MaxRaw)
    /\ extractor_calls = {}
    /\ searched = <<Queries[1]>>
    /\ findings = <<>>
    /\ arxiv_papers = <<>>
    /\ wikipedia_articles = <<>>
    /\ sources = <<>>
    /\ classified = Nothing
    /\ report = Nothing
    /\ iteration = 0
    /\ feedback = Nothing
    /\ calls = [NoCalls EXCEPT !.create_plan = 1, !.review = 1, !.search = 1]
    /\ revisions = 0
    /\ accepted = 0
    /\ rejects = 0
    /\ error = None

\* classified = self.link_analyzer.classify(urls)
Classify ==
    /\ pc = "classify"
    /\ classified' = Some(classify(UrlList(tavily_results)))
    /\ pc' = "classified"
    /\ UNCHANGED <<settings, question, exit_code, task_idx, tavily_results, extractor_calls,
                   searched, findings, arxiv_papers, wikipedia_articles, sources, calls,
                   error>>
    /\ UNCHANGED planning_vars
    /\ UNCHANGED writing_vars

\* a second classify call on the same urls; its result is kept after the first
ClassifyAgain ==
    /\ pc = "classified"
    /\ classified' = Append(classified, classify(UrlList(tavily_results)))
    /\ pc' = "reclassified"
    /\ UNCHANGED <<settings, question, exit_code, task_idx, tavily_results, extractor_calls,
                   searched, findings, arxiv_papers, wikipedia_articles, sources, calls,
                   error>>
    /\ UNCHANGED planning_vars
    /\ UNCHANGED writing_vars

ClassifyNext ==
    \/ Classify
    \/ ClassifyAgain

ClassifySpec == ClassifyInit /\ [][ClassifyNext]_vars

(***************************************************************************)
(* The writing phase on findings that carry sources: the state in which    *)
(* _writing_phase starts, for a plan of the planner and one outcome of     *)
(* execute_task per task (src/agents/writer.py, src/orchestrator.py).      *)
(***************************************************************************)
\* what execute_task leaves for these raw results, papers and articles
TaskOutcome(results, papers, articles) ==
    [sources |-> _build_enriched_sources(results, papers, articles),
     arxiv_papers |-> papers, wikipedia_articles |-> articles]

\* a search without results, one web result, and a paper found under the url
\* of its result next to a web result
TaskOutcomes ==
    {TaskOutcome(<<>>, <<>>, <<>>),
     TaskOutcome(<<TavilyResult(WebUrl)>>, <<>>, <<>>),
     TaskOutcome(<<TavilyResult(PaperUrl), TavilyResult(WebUrl)>>,
                 <<ArXivPaper("1", PaperUrl)>>, <<>>)}

\* the findings lists _research_phase can return for the plan p
WriterFindings(p) ==
    {[i \in 1 .. Len(p.tasks) |->
        [task_id |-> p.tasks[i].id, query |-> p.tasks[i].query,
         sources |-> o[i].sources, arxiv_papers |-> o[i].arxiv_papers,
         wikipedia_articles |-> o[i].wikipedia_articles]] :
        o \in [1 .. Len(p.tasks) -> TaskOutcomes]}

WriterInit ==
    \E p \in PlannerPlans("Q") :
        /\ settings \in [max_plan_attempts : {1},
                         max_reflection_iterations : 1 .. MaxReflection,
                         approval_threshold : ThresholdChoices]
        /\ pc = "write_report"
        /\ question = "Q"
        /\ exit_code = Nothing
        /\ plan_attempts = 1
        /\ plan = Some(p)
        /\ decision = "approve"
        /\ review = Some(HumanPlanReview("approve", Nothing, None))
        /\ presented = Some(p)
        /\ planner_output = Some(p)
        /\ replan_args = Nothing
        /\ typed = Nothing
        /\ approved_plan = Some(p)
        /\ task_idx = Len(p.tasks)
        /\ tavily_results = <<>>
        /\ extractor_calls = {}
        /\ searched = [i \in 1 .. Len(p.tasks) |-> p.tasks[i].query]
        /\ findings \in WriterFindings(p)
        /\ arxiv_papers = <<>>
        /\ wikipedia_articles = <<>>
        /\ sources = <<>>
        /\ classified = Nothing
        /\ report = Nothing
        /\ iteration = 0
        /\ feedback = Nothing
        /\ calls = [NoCalls EXCEPT !.create_plan = 1, !.review = 1,
                                   !.search = Len(p.tasks), !.summary = Len(p.tasks)]
        /\ revisions = 0
        /\ accepted = 0
        /\ rejects = 0
        /\ error = None

WriterNext ==
    \/ WriteReport
    \/ EditorReview
    \/ Revise

WriterSpec == WriterInit /\ [][WriterNext]_vars

(***************************************************************************)
(* The run under fair scheduling: asyncio.run drives the one coroutine of  *)
(* the run until it completes (src/cli/main.py), and every awaited call    *)
(* returns or fails, so a step that is possible is eventually taken.       *)
(***************************************************************************)
\* the settings with the longest loops, and those without any attempt
FairSettings ==
    {s \in SettingsSpace :
        \/ s.max_plan_attempts = 0
        \/ /\ s.max_plan_attempts = MaxPlanAttempts
           /\ s.max_reflection_iterations = MaxReflection}

FairInit == Init /\ settings \in FairSettings

FairSpec == FairInit /\ [][Next]_vars /\ WF_vars(Next)

(***************************************************************************)
(* The run with limits that are not positive: max_plan_attempts and        *)
(* max_reflection_iterations are ints read from the environment without a  *)
(* lower bound (src/utils/config.py), so 0 and negative values are         *)
(* settings the program runs with.  The settings with the longest loops    *)
(* are kept next to them.                                                  *)
(***************************************************************************)
EdgeSettings ==
    {s \in [max_plan_attempts : -1 .. MaxPlanAttempts,
            max_reflection_iterations : -1 .. MaxReflection,
            approval_threshold : ThresholdChoices] :
        \/ s.max_plan_attempts <= 0
        \/ s.max_reflection_iterations <= 0
        \/ /\ s.max_plan_attempts = MaxPlanAttempts
           /\ s.max_reflection_iterations = MaxReflection}

EdgeInit ==
    /\ settings \in EdgeSettings
    /\ Start

EdgeSpec == EdgeInit /\ [][Next]_vars

(***************************************************************************)
(* PlanReviewer.edit_plan on its own: a displayed plan and everything a    *)
(* human can type at "New query", the delete words in any case and with    *)
(* spaces around them included.                                            *)
(***************************************************************************)
\* what the human types at "New query" besides Enter
TypedQueries == EditQueries \cup {"skip", " Remove "}

\* the per-task answers over TypedQueries
TypedAnswers(task) ==
    {[new_query |-> nq, confirm |-> c] :
        nq \in {task.query} \cup TypedQueries, c \in BOOLEAN}

\* all answer scripts over TypedQueries for a plan's tasks
TypedScripts(tasks) ==
    {s \in [1 .. Len(tasks) -> UNION {TypedAnswers(tasks[i]) : i \in 1 .. Len(tasks)}] :
        \A i \in 1 .. Len(tasks) :
            /\ s[i] \in TypedAnswers(tasks[i])
            \* the confirmation is asked only after a delete word
            /\ StripLower(s[i].new_query) \notin DELETE_WORDS => s[i].confirm = FALSE}

\* PlanReviewer.review after the human chose "modify" for the first plan
EditInit ==
    /\ settings = [max_plan_attempts |-> 1, max_reflection_iterations |-> 1,
                   approval_threshold |-> DefaultThreshold]
    /\ pc = "edit"
    /\ question = "Q"
    /\ exit_code = Nothing
    /\ plan_attempts = 1
    /\ plan \in {Some(p) : p \in PlannerPlans("Q")}
    /\ decision = "modify"
    /\ review = Nothing
    /\ presented = plan
    /\ planner_output = plan
    /\ replan_args = Nothing
    /\ typed = Nothing
    /\ approved_plan = Nothing
    /\ task_idx = 0
    /\ tavily_results = <<>>
    /\ extractor_calls = {}
    /\ searched = <<>>
    /\ findings = <<>>
    /\ arxiv_papers = <<>>
    /\ wikipedia_articles = <<>>
    /\ sources = <<>>
    /\ classified = Nothing
    /\ report = Nothing
    /\ iteration = 0
    /\ feedback = Nothing
    /\ calls = [NoCalls EXCEPT !.create_plan = 1, !.review = 1]
    /\ revisions = 0
    /\ accepted = 0
    /\ rejects = 0
    /\ error = None

\* modified_plan = self.edit_plan(plan); return HumanPlanReview(action="modify", ...)
EditPlan ==
    /\ pc = "edit"
    /\ \E answers \in TypedScripts(The(plan).tasks), adds \in AddScripts :
        /\ typed' = Some(answers)
        /\ review' = Some(HumanPlanReview("modify",
                                          Some(edit_plan(The(plan), answers, adds)), None))
    /\ pc' = "edited"
    /\ UNCHANGED <<settings, question, exit_code, plan_attempts, plan, decision, presented,
                   planner_output, replan_args, approved_plan, rejects, calls, error>>
    /\ UNCHANGED research_vars
    /\ UNCHANGED writing_vars

EditNext == EditPlan

EditSpec == EditInit /\ [][EditNext]_vars

(***************************************************************************)
(* Properties.                                                             *)
(***************************************************************************)
Max(a, b) == IF a >= b THEN a ELSE b

\* the acceptance conditions as the specification words them
MeetsAcceptance(fb) == fb.approved = TRUE \/ fb.score >= settings.approval_threshold

\* C1: with max_plan_attempts = N >= 1, the Nth reject decision ends the run
\* with the planning-exhausted error and no replan call; so replan is called
\* at most N-1 times and a plan is shown for review at most N times.
C1_BoundedReplanning ==
    LET N == settings.max_plan_attempts
    IN  N >= 1 =>
            /\ rejects <= N
            /\ calls.replan <= N - 1
            /\ calls.review <= N
            /\ rejects = N =>
                /\ pc = "error"
                /\ error = "Maximum plan attempts exceeded"
                /\ calls.replan = N - 1

C1_Witness ==
    /\ settings.max_plan_attempts = MaxPlanAttempts
    /\ rejects = MaxPlanAttempts
    /\ calls.review = MaxPlanAttempts
    /\ error = "Maximum plan attempts exceeded"

\* C2 (as stated): when the writing phase has returned, the editor was called
\* at most max_reflection_iterations times and revise at most
\* max_reflection_iterations - 1 times.
C2_Original ==
    pc = "returned" =>
        /\ calls.editor <= settings.max_reflection_iterations
        /\ calls.revise <= settings.max_reflection_iterations - 1

\* C2 (amended): at every point the editor was called at most
\* max(max_reflection_iterations, 0) times and revise at most
\* max(max_reflection_iterations - 1, 0) times.
C2_BoundedReflection ==
    /\ calls.editor <= Max(settings.max_reflection_iterations, 0)
    /\ calls.revise <= Max(settings.max_reflection_iterations - 1, 0)

C2_Witness ==
    /\ pc = "returned"
    /\ settings.max_reflection_iterations = MaxReflection
    /\ calls.editor = MaxReflection
    /\ calls.revise = MaxReflection - 1

\* an editor call that returned feedback in this step
EditorAnswered ==
    /\ calls'.editor = calls.editor + 1
    /\ pc' # "error"

\* C3: after editor call i with i < max_reflection_iterations the loop stops
\* if and only if feedback i is approved or its score is at least
\* approval_threshold, and no revise call follows an accepting feedback.
C3_EarlyStopIff ==
    [][/\ (EditorAnswered /\ iteration < settings.max_reflection_iterations) =>
            (pc' = "returned" <=> MeetsAcceptance(The(feedback')))
       /\ calls'.revise # calls.revise => ~MeetsAcceptance(The(feedback))]_vars

C3_Witness ==
    /\ pc = "returned"
    /\ iteration < settings.max_reflection_iterations
    /\ The(feedback).approved
    /\ The(feedback).score < settings.approval_threshold

\* C4: when no feedback is accepting and max_reflection_iterations = M >= 1,
\* the writing phase returns a report, without an error, after exactly M
\* editor calls and M-1 revise calls, and the report has iterations = M.
C4_ExhaustionReturnsDraft ==
    LET M == settings.max_reflection_iterations
    IN  (M >= 1 /\ accepted = 0 /\ error = None) =>
            /\ calls.editor = M => pc = "returned"
            /\ pc = "returned" =>
                /\ calls.editor = M
                /\ calls.revise = M - 1
                /\ report # Nothing
                /\ The(report).iterations = M

C4_Witness ==
    /\ pc = "returned"
    /\ accepted = 0
    /\ settings.max_reflection_iterations = MaxReflection
    /\ calls.editor = MaxReflection
    /\ The(report).iterations = MaxReflection

\* C5: the current report's iterations field is 1 + the number of completed
\* revise calls in every state, and it never decreases.
C5_IterationsCount ==
    /\ [](report # Nothing => The(report).iterations = 1 + revisions)
    /\ [][report # Nothing =>
            /\ report' # Nothing
            /\ The(report').iterations >= The(report).iterations]_vars

C5_Witness ==
    /\ report # Nothing
    /\ revisions = MaxReflection - 1
    /\ The(report).iterations = MaxReflection

\* C6 (as stated): every plan returned by the planning phase, approved as-is
\* or edited, has pairwise distinct task ids.
C6_DistinctTaskIds ==
    approved_plan # Nothing => DistinctIds(The(approved_plan).tasks)

\* the counters of every call but the plan review
CallsButReview == [c \in DOMAIN calls \ {"review"} |-> calls[c]]

\* the planner and review counters
PlanningCalls == <<calls.create_plan, calls.replan, calls.review>>

\* C7: a quit decision aborts the workflow at once: the round that takes it
\* makes no call, no replan, search, enrichment, summary, writer or editor
\* call is made afterwards, and no report is returned.
C7_QuitAborts ==
    /\ [](decision = "quit" =>
            /\ pc = "aborted"
            /\ report = Nothing
            /\ approved_plan = Nothing)
    /\ [][/\ decision' = "quit" => /\ CallsButReview' = CallsButReview
                                   /\ extractor_calls' = extractor_calls
          /\ decision = "quit" => calls' = calls]_vars

C7_Witness ==
    /\ decision = "quit"
    /\ calls.replan >= 1
    /\ exit_code # Nothing

\* C8 (as stated): the exit status is non-zero when the run ended in a fatal
\* error and when the user aborted with quit.
C8_Original ==
    (exit_code # Nothing /\ pc \in {"error", "aborted"}) => The(exit_code) # 0

\* C8 (amended): the exit status is non-zero when the run ended in a fatal
\* error, and 0 when the user aborted with quit.
C8_ExitStatus ==
    exit_code # Nothing =>
        /\ pc = "error" => The(exit_code) # 0
        /\ pc = "aborted" => The(exit_code) = 0

C8_Witness ==
    /\ pc = "error"
    /\ error = "Maximum plan attempts exceeded"
    /\ exit_code = Some(1)

\* C9: on approve the planning phase returns exactly the plan just shown for
\* review, which is the latest planner output, and no planner or review call
\* follows.
C9_ApproveReturnsPlan ==
    /\ [](decision = "approve" =>
            /\ approved_plan # Nothing
            /\ approved_plan = presented
            /\ approved_plan = planner_output
            /\ pc \notin {"create_plan", "review", "replan"})
    /\ [][decision = "approve" => PlanningCalls' = PlanningCalls]_vars

C9_Witness ==
    /\ decision = "approve"
    /\ calls.replan >= 1
    /\ Len(The(approved_plan).tasks) = MaxTasks
    /\ pc = "returned"

\* the research phase has run to its end
ResearchDone == pc \in {"write_report", "editor", "revise", "returned"}

\* C10: on modify the planning phase returns the edited plan at once, with no
\* further review round or planner call, and the research phase runs on the
\* edited plan's tasks.
C10_ModifyReturnsEdited ==
    /\ [](decision = "modify" =>
            LET edited == The(The(review).modified_plan)
            IN  /\ approved_plan = Some(edited)
                /\ pc \notin {"create_plan", "review", "replan"}
                /\ Len(searched) <= Len(edited.tasks)
                /\ \A i \in 1 .. Len(searched) : searched[i] = edited.tasks[i].query
                /\ Len(findings) <= Len(edited.tasks)
                /\ \A i \in 1 .. Len(findings) :
                    /\ findings[i].task_id = edited.tasks[i].id
                    /\ findings[i].query = edited.tasks[i].query
                /\ ResearchDone => /\ Len(searched) = Len(edited.tasks)
                                   /\ Len(findings) = Len(edited.tasks))
    /\ [][decision = "modify" => PlanningCalls' = PlanningCalls]_vars

C10_Witness ==
    /\ decision = "modify"
    /\ approved_plan # presented
    /\ Len(The(approved_plan).tasks) > Len(The(presented).tasks)
    /\ Len(findings) = Len(The(approved_plan).tasks)
    /\ pc = "returned"

\* a reject decision taken in this step while attempts remain
RejectWithAttemptsLeft ==
    /\ pc = "review"
    /\ decision' = "reject"
    /\ plan_attempts < settings.max_plan_attempts

\* C11: every reject decision received while attempts remain causes exactly
\* one replan call, made with the original question and the feedback text of
\* that round, and the plan shown in the next review round is the output of
\* that replan call.
C11_RejectCausesOneReplan ==
    /\ [][RejectWithAttemptsLeft =>
            /\ pc' = "replan"
            /\ calls'.replan = calls.replan
            /\ calls.replan = rejects]_vars
    /\ [][pc = "replan" =>
            /\ calls'.replan = calls.replan + 1
            /\ calls'.replan = rejects
            /\ replan_args' = Some(<<question, The(review).feedback>>)
            /\ pc' \in {"review", "error"}
            /\ pc' = "review" => plan' = planner_output' /\ plan' # Nothing]_vars
    /\ [](pc = "review" => calls.replan = rejects)
    /\ [][pc = "review" /\ calls.replan >= 1 => presented' = planner_output]_vars

C11_Witness ==
    /\ pc = "review"
    /\ calls.replan = 2
    /\ rejects = 2
    /\ replan_args = Some(<<"Q", "more sources">>)
    /\ presented # planner_output

\* C12: after k reject decisions followed by approve, k < max_plan_attempts,
\* exactly k replan calls were made, the approved plan is the (k+1)-th planner
\* output, and the research phase works through exactly the tasks of that
\* plan in plan order.
C12_RejectsThenApprove ==
    (decision = "approve" /\ rejects < settings.max_plan_attempts) =>
        LET tasks == The(planner_output).tasks
        IN  /\ calls.replan = rejects
            /\ calls.create_plan + calls.replan = rejects + 1
            /\ approved_plan = planner_output
            /\ Len(searched) <= Len(tasks)
            /\ \A i \in 1 .. Len(searched) : searched[i] = tasks[i].query
            /\ Len(findings) <= Len(searched)
            /\ \A i \in 1 .. Len(findings) : findings[i].task_id = tasks[i].id
            /\ ResearchDone => /\ Len(searched) = Len(tasks)
                               /\ Len(findings) = Len(tasks)

C12_Witness ==
    /\ decision = "approve"
    /\ rejects = 1
    /\ calls.replan = 1
    /\ searched = <<Queries[1], Queries[2]>>
    /\ Len(findings) = 2
    /\ pc = "write_report"

\* C13: if the first accepting feedback (approved, or score at least
\* approval_threshold) is the j-th one, j <= max_reflection_iterations, the
\* loop has made exactly j editor calls and j - 1 revise calls and stops: the
\* phase returns and no editor or writer call follows.
C13_FirstAcceptStops ==
    /\ [](accepted >= 1 =>
            /\ accepted = 1
            /\ MeetsAcceptance(The(feedback))
            /\ calls.editor = iteration
            /\ calls.editor <= settings.max_reflection_iterations
            /\ calls.revise = calls.editor - 1
            /\ revisions = calls.revise
            /\ pc = "returned")
    /\ [][accepted >= 1 => calls' = calls]_vars

C13_Witness ==
    /\ accepted = 1
    /\ settings.max_reflection_iterations = 3
    /\ calls.editor = 2
    /\ calls.revise = 1
    /\ The(feedback).score = MaxScore
    /\ ~The(feedback).approved
    /\ exit_code = Some(0)

\* C14: no phase starts before the previous one has completed: no search call
\* is made before a plan was approved or modified, the initial draft is not
\* requested from the writer before every task of the approved plan has
\* produced its findings, and the editor is not called before the initial
\* draft exists.
C14_PhaseBarriers ==
    /\ [][calls'.search # calls.search =>
            /\ decision \in {"approve", "modify"}
            /\ approved_plan # Nothing
            /\ calls'.review = calls.review]_vars
    /\ [][calls'.write_report # calls.write_report =>
            /\ Len(findings) = Len(The(approved_plan).tasks)
            /\ \A i \in 1 .. Len(findings) :
                findings[i].task_id = The(approved_plan).tasks[i].id
            /\ calls.summary = Len(findings)
            /\ report = Nothing]_vars
    /\ [][calls'.editor # calls.editor =>
            /\ report # Nothing
            /\ calls.write_report = 1]_vars

C14_Witness ==
    /\ calls.editor = 1
    /\ calls.write_report = 1
    /\ calls.search = MaxTasks
    /\ Len(findings) = MaxTasks
    /\ rejects = 1
    /\ pc = "revise"

\* C16: if the search call fails for task k, the search is not retried, no
\* enrichment or summary call is made for task k, no later task is searched,
\* the writer and the editor are never called, and the run ends with an error
\* and no report.
C16_SearchFailureIsFatal ==
    /\ [](error = "search" =>
            /\ pc = "error"
            /\ calls.search = task_idx
            /\ Len(searched) = task_idx
            /\ extractor_calls = {}
            /\ calls.summary = task_idx - 1
            /\ Len(findings) = task_idx - 1
            /\ calls.write_report = 0
            /\ calls.editor = 0
            /\ calls.revise = 0
            /\ report = Nothing
            /\ exit_code \in {Nothing, Some(1)})
    /\ [][error = "search" =>
            /\ calls' = calls
            /\ searched' = searched
            /\ extractor_calls' = extractor_calls]_vars

C16_Witness ==
    /\ error = "search"
    /\ task_idx = 1
    /\ Len(The(approved_plan).tasks) = MaxTasks
    /\ calls.search = 1
    /\ exit_code = Some(1)

\* the calls that go to an LLM
LlmCalls ==
    <<calls.create_plan, calls.replan, calls.summary, calls.write_report, calls.editor,
      calls.revise>>

\* C17: if any LLM call (planner, research summary, writer draft, writer
\* revise or editor) fails, the run ends with an error, no report is returned
\* even when a draft already exists, the failed call is not issued again and
\* no further external call is made.
C17_LlmFailureIsFatal ==
    /\ [][LlmCalls' # LlmCalls /\ pc' = "error" => error' = "llm"]_vars
    /\ [](error = "llm" =>
            /\ pc = "error"
            /\ exit_code \in {Nothing, Some(1)})
    /\ [][error = "llm" =>
            /\ pc' = "error"
            /\ calls' = calls
            /\ extractor_calls' = extractor_calls
            /\ report' = report]_vars

C17_Witness ==
    /\ error = "llm"
    /\ report # Nothing
    /\ calls.revise = 1
    /\ revisions = 0
    /\ exit_code = Some(1)

\* the urls of the enrichment records of the task
EnrichmentUrls == UrlsOf(arxiv_papers) \cup UrlsOf(wikipedia_articles)

\* the sources are built: the task is at or past the summary call
SourcesBuilt == pc \in {"summarize", "write_report"} \/ error = "llm"

\* C15: a failed extraction for one url during enrichment does not fail the
\* task: an extraction step never ends the task with an error, no enriched
\* record is produced for the url, the raw result for it is kept as a web
\* source, the other urls are still enriched and the task yields its
\* ResearchFindings.
C15_ExtractionFailureKeepsTask ==
    /\ [][(pc = "extract_papers" \/ pc = "extract_articles") => pc' # "error"]_vars
    /\ [](SourcesBuilt =>
            \A i \in 1 .. Len(tavily_results) :
                tavily_results[i].url \notin EnrichmentUrls =>
                    sources[i] = EnrichedSource("web", tavily_results[i].url,
                                                tavily_results[i].title,
                                                tavily_results[i].content))

\* C18: in the merged source list of a task no web-typed source has the url
\* of an enrichment record of that task: every raw result whose url matches
\* an enrichment record is represented with the title and content of such a
\* record and the type arxiv or wikipedia.
C18_EnrichedReplacesRaw ==
    SourcesBuilt =>
        /\ \A i \in 1 .. Len(sources) :
            sources[i].source_type = "web" => sources[i].url \notin EnrichmentUrls
        /\ Len(sources) >= Len(tavily_results)
        /\ \A i \in 1 .. Len(tavily_results) :
            tavily_results[i].url \in EnrichmentUrls =>
                /\ sources[i].url = tavily_results[i].url
                /\ \/ /\ sources[i].source_type = "arxiv"
                      /\ \E k \in 1 .. Len(arxiv_papers) :
                            /\ arxiv_papers[k].url = sources[i].url
                            /\ arxiv_papers[k].title = sources[i].title
                            /\ arxiv_papers[k].abstract = sources[i].content
                   \/ /\ sources[i].source_type = "wikipedia"
                      /\ \E k \in 1 .. Len(wikipedia_articles) :
                            /\ wikipedia_articles[k].url = sources[i].url
                            /\ wikipedia_articles[k].title = sources[i].title
                            /\ wikipedia_articles[k].summary = sources[i].content

C18_Witness ==
    /\ pc = "write_report"
    /\ Len(tavily_results) = 2
    /\ tavily_results[1].url = PaperUrl
    /\ tavily_results[2].url = ArticleUrl
    /\ sources[1].source_type = "arxiv"
    /\ sources[2].source_type = "wikipedia"
    /\ findings[1].sources = sources

\* C19: for any raw search results and any enrichment outputs, the merged
\* source list of one ResearchFindings holds no two sources with the same
\* url.
C19_UniqueSourceUrls ==
    \A k \in 1 .. Len(findings) :
        "sources" \in DOMAIN findings[k] =>
            \A i, j \in 1 .. Len(findings[k].sources) :
                i # j => findings[k].sources[i].url # findings[k].sources[j].url

\* the places of the url in the source list
PlacesOf(url) == {i \in 1 .. Len(sources) : sources[i].url = url}

\* C20: every enrichment record whose url matches no raw search result
\* appears exactly once in the merged source list, after all entries derived
\* from raw results, with papers before encyclopedia articles.
C20_UnmatchedAppendedOnce ==
    SourcesBuilt =>
        LET n == Len(tavily_results)
        IN  /\ \A k \in 1 .. Len(arxiv_papers) :
                arxiv_papers[k].url \notin UrlsOf(tavily_results) =>
                    /\ Cardinality(PlacesOf(arxiv_papers[k].url)) = 1
                    /\ \A i \in PlacesOf(arxiv_papers[k].url) :
                        /\ i > n
                        /\ sources[i] = EnrichedSource("arxiv", arxiv_papers[k].url,
                                                       arxiv_papers[k].title,
                                                       arxiv_papers[k].abstract)
            /\ \A k \in 1 .. Len(wikipedia_articles) :
                wikipedia_articles[k].url \notin UrlsOf(tavily_results) =>
                    /\ Cardinality(PlacesOf(wikipedia_articles[k].url)) = 1
                    /\ \A i \in PlacesOf(wikipedia_articles[k].url) :
                        /\ i > n
                        /\ sources[i] = EnrichedSource("wikipedia",
                                                       wikipedia_articles[k].url,
                                                       wikipedia_articles[k].title,
                                                       wikipedia_articles[k].summary)
            /\ \A i, j \in (n + 1) .. Len(sources) :
                /\ sources[i].source_type = "arxiv"
                /\ sources[j].source_type = "wikipedia"
                => i < j

C20_Witness ==
    /\ pc = "write_report"
    /\ Len(tavily_results) = 2
    /\ Len(arxiv_papers) = 1
    /\ Len(wikipedia_articles) = 1
    /\ Len(sources) = 4
    /\ sources[3].url = PaperEntryId
    /\ sources[4].url = ArticleFullUrl

\* C21: within a task the paper extractor is called only if at least one
\* result url was classified as paper and the encyclopedia extractor only if
\* at least one was classified as encyclopedia; when a class is empty its
\* extractor is never called and the list of the findings for that class is
\* empty.
C21_ConditionalEnrichment ==
    LET urls == [i \in 1 .. Len(tavily_results) |-> tavily_results[i].url]
        papers == {i \in 1 .. Len(urls) : _is_arxiv(urls[i])}
        encyclopedia == {i \in 1 .. Len(urls) : ~_is_arxiv(urls[i]) /\ _is_wikipedia(urls[i])}
    IN  /\ "arxiv" \in extractor_calls => papers # {}
        /\ "wikipedia" \in extractor_calls => encyclopedia # {}
        /\ papers = {} =>
            /\ arxiv_papers = <<>>
            /\ \A k \in 1 .. Len(findings) : findings[k].arxiv_papers = <<>>
        /\ encyclopedia = {} =>
            /\ wikipedia_articles = <<>>
            /\ \A k \in 1 .. Len(findings) : findings[k].wikipedia_articles = <<>>

C21_Witness ==
    /\ Len(findings) = 1
    /\ Len(tavily_results) = 2
    /\ extractor_calls = {"wikipedia"}
    /\ findings[1].arxiv_papers = <<>>
    /\ Len(findings[1].wikipedia_articles) = 1

\* C22: when the research phase completes, the findings list has the length
\* of the task list of the approved plan and findings[i].task_id equals
\* plan.tasks[i].id for every index i.
C22_FindingsMatchTasks ==
    (calls.write_report >= 1 \/ pc = "write_report") =>
        /\ approved_plan # Nothing
        /\ Len(findings) = Len(The(approved_plan).tasks)
        /\ \A i \in 1 .. Len(findings) :
            findings[i].task_id = The(approved_plan).tasks[i].id

C22_Witness ==
    /\ pc = "write_report"
    /\ decision = "modify"
    /\ Len(findings) = MaxTasks + MaxAppend
    /\ findings[1].task_id = TaskId(1)
    /\ findings[2].task_id = TaskId(2)

\* the number of sources in the findings before the k-th
RECURSIVE SourcesBefore(_)
SourcesBefore(k) ==
    IF k <= 1 THEN 0 ELSE SourcesBefore(k - 1) + Len(findings[k - 1].sources)

\* C23: across any number of revise calls the source list of the report
\* stays equal to the source list of the initial draft; a revision replaces
\* only title and content and increments iterations by one.
C23_RevisionKeepsSources ==
    [][(calls'.revise # calls.revise /\ pc' # "error") =>
            /\ The(report').sources = The(report).sources
            /\ The(report').iterations = The(report).iterations + 1
            /\ DOMAIN The(report') = DOMAIN The(report)
            /\ The(report').title = Draft(calls'.revise + 1).title
            /\ The(report').content = Draft(calls'.revise + 1).content]_vars

C23_Witness ==
    /\ calls.revise = 2
    /\ revisions = 2
    /\ The(report).iterations = 3
    /\ Len(The(report).sources) = 3
    /\ The(report).title = Draft(3).title

\* C29: the source list of the initial draft is the union of the sources of
\* all findings, built as the in-order concatenation of findings[0].sources,
\* findings[1].sources and so on, so that every source of every finding is
\* present.
C29_DraftCollectsSources ==
    (report # Nothing /\ revisions = 0) =>
        LET all_sources == The(report).sources
        IN  /\ Len(all_sources) = SourcesBefore(Len(findings) + 1)
            /\ \A k \in 1 .. Len(findings) :
                \A i \in 1 .. Len(findings[k].sources) :
                    all_sources[SourcesBefore(k) + i] = findings[k].sources[i]

C29_Witness ==
    /\ report # Nothing
    /\ revisions = 0
    /\ Len(findings) = 2
    /\ Len(findings[1].sources) = 1
    /\ Len(findings[2].sources) = 2
    /\ Len(The(report).sources) = 3

\* C28: within one task the steps run in a fixed order: the search comes
\* before any enrichment, papers are extracted before encyclopedia articles,
\* and exactly one summary request is issued after the merge, also when the
\* search returned no results.
C28_TaskStepOrder ==
    LET links == classify(UrlList(tavily_results))
        merged == _build_enriched_sources(tavily_results, arxiv_papers, wikipedia_articles)
        papers_done == links.arxiv # <<>> => "arxiv" \in extractor_calls
        articles_done == links.wikipedia # <<>> => "wikipedia" \in extractor_calls
    IN  /\ pc = "search" => calls.search = 0 /\ extractor_calls = {} /\ calls.summary = 0
        /\ pc # "search" => calls.search = 1
        /\ pc = "extract_papers" => extractor_calls = {} /\ calls.summary = 0
        /\ pc = "extract_articles" =>
                "wikipedia" \notin extractor_calls /\ papers_done /\ calls.summary = 0
        /\ pc = "summarize" =>
                papers_done /\ articles_done /\ calls.summary = 0 /\ sources = merged
        /\ calls.summary <= 1
        /\ calls.summary = 1 => papers_done /\ articles_done /\ sources = merged
        /\ Len(findings) = 1 => calls.summary = 1 /\ findings[1].sources = merged

C28_Witness ==
    /\ Len(findings) = 1
    /\ extractor_calls = {"arxiv", "wikipedia"}
    /\ calls.search = 1
    /\ calls.summary = 1
    /\ Len(findings[1].sources) = 2

\* C27: the research phase issues exactly one search call per task of the
\* approved plan, with that task's query, in plan order, one task at a time
\* (the search of a task starts only when the findings of every earlier task
\* are there), and leaves the approved plan's task list unchanged.
C27_OneSearchPerTask ==
    /\ [](/\ calls.search = Len(searched)
          /\ approved_plan = Nothing => searched = <<>>
          /\ approved_plan # Nothing =>
                LET tasks == The(approved_plan).tasks
                IN  /\ Len(searched) <= Len(tasks)
                    /\ \A i \in 1 .. Len(searched) : searched[i] = tasks[i].query
                    /\ Len(findings) <= Len(searched)
                    /\ Len(searched) <= Len(findings) + 1
                    /\ pc = "search" => Len(searched) = Len(findings)
                    /\ ResearchDone => Len(searched) = Len(tasks))
    /\ [][approved_plan # Nothing => approved_plan' = approved_plan]_vars

C27_Witness ==
    /\ pc = "write_report"
    /\ decision = "approve"
    /\ calls.search = MaxTasks
    /\ Len(searched) = MaxTasks
    /\ searched[1] # searched[2]

\* C30: a plan edit keeps the id, the reasoning and the relative order of
\* every task that is not deleted and changes only queries; each appended
\* task is placed after all retained tasks and receives the id task_<n>
\* where n is the length of the edited list once it is appended.  Stated
\* where the edit has just returned, before the first call of the research
\* or the writing phase; the review is not assigned again after that.
C30_EditKeepsTasks ==
    (decision = "modify" /\ calls.search = 0 /\ calls.write_report = 0) =>
        LET original == The(presented)
            edited == The(The(review).modified_plan)
            old == original.tasks
            new == edited.tasks
            shown == {old[j].reasoning : j \in 1 .. Len(old)}
        IN  /\ edited.question = original.question
            /\ edited.strategy = original.strategy
            /\ \E k \in 0 .. Len(new) :
                /\ \E f \in [1 .. k -> 1 .. Len(old)] :
                    /\ \A i, j \in 1 .. k : i < j => f[i] < f[j]
                    /\ \A i \in 1 .. k :
                        /\ new[i].id = old[f[i]].id
                        /\ new[i].reasoning = old[f[i]].reasoning
                /\ \A i \in k + 1 .. Len(new) :
                    /\ new[i].reasoning \notin shown
                    /\ new[i].id = TaskId(i)

C30_Witness ==
    /\ decision = "modify"
    /\ calls.search = 0
    /\ Len(The(presented).tasks) = 2
    /\ Len(The(approved_plan).tasks) = 2
    /\ The(approved_plan).tasks[1].id = TaskId(2)
    /\ The(approved_plan).tasks[1].reasoning = The(presented).tasks[2].reasoning
    /\ The(approved_plan).tasks[1].query # The(presented).tasks[2].query
    /\ The(approved_plan).tasks[2].id = TaskId(2)
    /\ The(approved_plan).tasks[2].reasoning = "mine"

\* the external calls started so far, but for the extractors
CallTotal(c) ==
    c.create_plan + c.replan + c.review + c.search + c.summary + c.write_report
        + c.editor + c.revise

\* C24: at no point of a workflow run are two external calls (search,
\* enrichment, LLM, human decision) in flight at the same time: every step of
\* the run starts at most one call and ends with that call returned or
\* failed, and no call is started once the run has ended.
C24_OneCallAtATime ==
    [][LET started == (CallTotal(calls') - CallTotal(calls))
                        + Cardinality(extractor_calls' \ extractor_calls)
       IN  /\ started <= 1
           /\ pc \in {"returned", "error", "aborted", "exited"} => started = 0]_vars

C24_Witness ==
    /\ pc = "summarize"
    /\ extractor_calls = {"arxiv", "wikipedia"}
    /\ calls.create_plan = 1
    /\ calls.replan = 1
    /\ calls.review = 2
    /\ calls.search = 2
    /\ calls.summary = 1

\* the positions of a workflow run that has not ended
Running ==
    pc \in {"create_plan", "review", "replan", "search", "extract_papers",
            "extract_articles", "summarize", "write_report", "editor", "revise"}

\* C25: for any finite sequence of human decisions and editor feedbacks, and
\* provided every external call returns or fails, a workflow run eventually
\* reaches a terminal outcome: a returned report, a fatal error, or a user
\* abort.
C25_RunTerminates == Running ~> (pc \in {"returned", "error", "aborted"})

C25_Witness ==
    /\ pc = "returned"
    /\ rejects = MaxPlanAttempts - 1
    /\ calls.editor = MaxReflection
    /\ revisions = MaxReflection - 1
    /\ Len(findings) = MaxTasks

\* the url is a paper by the text of its parts as written
PaperAsWritten(url) ==
    /\ ~UnbalancedBracket(url.netloc)
    /\ Contains(url.netloc, "arxiv.org")
    /\ Contains(url.path, "/abs/") \/ Contains(url.path, "/pdf/")

EncyclopediaAsWritten(url) ==
    /\ ~PaperAsWritten(url)
    /\ ~UnbalancedBracket(url.netloc)
    /\ Contains(url.netloc, "wikipedia.org")
    /\ Contains(url.path, "/wiki/")

OtherAsWritten(url) == ~PaperAsWritten(url) /\ ~EncyclopediaAsWritten(url)

\* C26 as stated: the link classifier returns paper exactly when the url's
\* domain contains the preprint host and its path contains /abs/ or /pdf/,
\* encyclopedia exactly when it is not a paper and the domain contains the
\* encyclopedia host and the path contains /wiki/, and other in every
\* remaining case including malformed or empty strings, without raising.
C26_Original ==
    pc = "classified" =>
        LET urls == UrlList(tavily_results)
        IN  /\ The(classified).arxiv = SelectSeq(urls, PaperAsWritten)
            /\ The(classified).wikipedia = SelectSeq(urls, EncyclopediaAsWritten)
            /\ The(classified).other = SelectSeq(urls, OtherAsWritten)

\* the url is a paper by its parts in lower case
PaperInLowerCase(url) ==
    /\ ~UnbalancedBracket(url.netloc)
    /\ Contains(Lower(url.netloc), "arxiv.org")
    /\ Contains(Lower(url.path), "/abs/") \/ Contains(Lower(url.path), "/pdf/")

EncyclopediaInLowerCase(url) ==
    /\ ~PaperInLowerCase(url)
    /\ ~UnbalancedBracket(url.netloc)
    /\ Contains(Lower(url.netloc), "wikipedia.org")
    /\ Contains(Lower(url.path), "/wiki/")

OtherInLowerCase(url) == ~PaperInLowerCase(url) /\ ~EncyclopediaInLowerCase(url)

\* C26: the link classifier returns paper exactly when the url's domain, in
\* lower case, contains the preprint host and its path, in lower case,
\* contains /abs/ or /pdf/, encyclopedia exactly when it is not a paper and
\* the domain in lower case contains the encyclopedia host and the path in
\* lower case contains /wiki/, and other in every remaining case including
\* malformed or empty strings; the classification always returns, with the
\* urls of each class in the order of the list.
C26_LinkClassification ==
    /\ pc \in {"classify", "classified", "reclassified"}
    /\ error = None
    /\ pc = "classified" =>
        LET urls == UrlList(tavily_results)
        IN  /\ classified # Nothing
            /\ The(classified).arxiv = SelectSeq(urls, PaperInLowerCase)
            /\ The(classified).wikipedia = SelectSeq(urls, EncyclopediaInLowerCase)
            /\ The(classified).other = SelectSeq(urls, OtherInLowerCase)

C26_Witness ==
    /\ pc = "classified"
    /\ UrlList(tavily_results) = <<MalformedUrl, UpperCaseUrl>>
    /\ The(classified).arxiv = <<UpperCaseUrl>>
    /\ The(classified).wikipedia = <<>>
    /\ The(classified).other = <<MalformedUrl>>

\* C31: every HumanPlanReview produced by a review round has modified_plan
\* present if and only if its action is modify, and feedback present if and
\* only if its action is reject; a quit decision produces no HumanPlanReview
\* at all (the review at hand is then still that of the round before, a
\* reject, or none).
C31_ReviewShape ==
    /\ review # Nothing =>
        /\ The(review).action \in {"approve", "modify", "reject"}
        /\ The(review).modified_plan # Nothing <=> The(review).action = "modify"
        /\ The(review).feedback # None <=> The(review).action = "reject"
        /\ decision # "quit" => The(review).action = decision
    /\ decision \in {"approve", "modify", "reject"} => review # Nothing
    /\ decision = "quit" =>
        /\ calls.review = rejects + 1
        /\ rejects = 0 => review = Nothing
        /\ rejects > 0 => The(review).action = "reject"

C31_Witness ==
    /\ decision = "quit"
    /\ rejects = 1
    /\ calls.review = 2
    /\ The(review).action = "reject"
    /\ The(review).feedback = ""
    /\ The(review).modified_plan = Nothing

\* the number of urls up to the i-th that f puts in the class of the i-th
Rank(f, i) == Cardinality({j \in 1 .. i : f[j] = f[i]})

\* C32: classification is deterministic and a partition: classifying the
\* same url list twice gives identical results, and each input url
\* occurrence lands in exactly one of the three output lists with input
\* order and multiplicity preserved, the paper test taking precedence over
\* the encyclopedia test.
C32_ClassificationPartition ==
    /\ Len(classified) = 2 => classified[1] = classified[2]
    /\ \A n \in 1 .. Len(classified) :
        LET urls == UrlList(tavily_results)
            lists == classified[n]
        IN  /\ DOMAIN lists = {"arxiv", "wikipedia", "other"}
            /\ \E f \in [1 .. Len(urls) -> {"arxiv", "wikipedia", "other"}] :
                /\ \A c \in {"arxiv", "wikipedia", "other"} :
                    Len(lists[c]) = Cardinality({j \in 1 .. Len(urls) : f[j] = c})
                /\ \A i \in 1 .. Len(urls) :
                    /\ lists[f[i]][Rank(f, i)] = urls[i]
                    /\ PaperInLowerCase(urls[i]) <=> f[i] = "arxiv"
                    /\ f[i] = "wikipedia" => EncyclopediaInLowerCase(urls[i])

C32_Witness ==
    /\ pc = "reclassified"
    /\ UrlList(tavily_results) = <<BothUrl, BothUrl>>
    /\ classified[1].arxiv = <<BothUrl, BothUrl>>
    /\ classified[2] = classified[1]
    /\ classified[2].wikipedia = <<>>

\* C33: the merge preserves raw result order and count: the first
\* len(raw results) entries of the merged list carry, position by position,
\* the urls of the raw results, so the merged length equals the number of
\* raw results plus the number of distinct enrichment urls that match no raw
\* result.
C33_MergeKeepsRawOrder ==
    SourcesBuilt =>
        /\ Len(sources) >= Len(tavily_results)
        /\ \A i \in 1 .. Len(tavily_results) : sources[i].url = tavily_results[i].url
        /\ Len(sources) = Len(tavily_results)
                            + Cardinality(EnrichmentUrls \ UrlsOf(tavily_results))

C33_Witness ==
    /\ pc = "write_report"
    /\ Len(tavily_results) = 2
    /\ tavily_results[1].url = ArticleUrl
    /\ tavily_results[2].url = ArticleUrl
    /\ Len(wikipedia_articles) = 2
    /\ Len(sources) = 2
    /\ sources[1].source_type = "wikipedia"
    /\ findings[1].sources = sources

\* C34: when max_reflection_iterations >= 1, the report returned by the
\* writing phase is always the report whose content was submitted to the
\* last editor call: a revision is never returned without having been
\* reviewed.  The n-th editor call is given the content of the n-th draft of
\* the writer, and the report returned after n editor calls is that draft.
C34_ReturnedReportWasReviewed ==
    settings.max_reflection_iterations >= 1 =>
        /\ pc = "editor" =>
            /\ report # Nothing
            /\ The(report).content = Draft(calls.editor + 1).content
            /\ revisions = calls.editor
        /\ pc = "returned" =>
            /\ calls.editor >= 1
            /\ feedback # Nothing
            /\ revisions = calls.editor - 1
            /\ The(report).content = Draft(calls.editor).content

C34_Witness ==
    /\ pc = "returned"
    /\ settings.max_reflection_iterations = MaxReflection
    /\ calls.editor = MaxReflection
    /\ accepted = 0
    /\ The(report).content = Draft(MaxReflection).content
    /\ The(report).iterations = MaxReflection

C36_NoReflectionReturnsDraft ==
    settings.max_reflection_iterations <= 0 =>
        /\ calls.editor = 0
        /\ calls.revise = 0
        /\ pc \notin {"editor", "revise"}
        /\ feedback = Nothing
        /\ (calls.write_report = 1 /\ pc # "error") =>
            /\ pc = "returned"
            /\ report = Some(FinalReport(Draft(1).title, Draft(1).content,
                                         The(report).sources, 1))
        /\ pc = "returned" => calls.write_report = 1

C36_Witness ==
    /\ settings.max_reflection_iterations = -1
    /\ pc = "returned"
    /\ calls.write_report = 1
    /\ calls.editor = 0
    /\ The(report).iterations = 1
    /\ Len(findings) = MaxTasks

\* C37: when max_plan_attempts <= 0 the planning phase fails with an error
\* without calling the planner and without presenting any plan for review,
\* so no research, writing or editing happens.
C37_NoAttemptsFails ==
    settings.max_plan_attempts <= 0 =>
        /\ pc \in {"cli", "exited", "error"}
        /\ pc = "error" => error = "Unexpected end of planning phase"
        /\ pc = "exited" => StripLower(question) \in {"quit", "exit", "q"}
        /\ CallTotal(calls) = 0
        /\ extractor_calls = {}
        /\ plan = Nothing
        /\ presented = Nothing
        /\ approved_plan = Nothing
        /\ searched = <<>>
        /\ findings = <<>>
        /\ report = Nothing
        /\ feedback = Nothing

C37_Witness ==
    /\ settings.max_plan_attempts = -1
    /\ pc = "error"
    /\ error = "Unexpected end of planning phase"
    /\ exit_code = Some(1)
    /\ calls = NoCalls

\* C38: when a modify edit deletes every task and appends none, the empty
\* plan is accepted as the approved plan: the research phase makes zero
\* search calls and returns an empty findings list, and the writer is still
\* asked for a draft, whose source list is empty.
C38_EmptyEditedPlan ==
    (decision = "modify" /\ The(The(review).modified_plan).tasks = <<>>) =>
        /\ approved_plan = The(review).modified_plan
        /\ The(approved_plan).tasks = <<>>
        /\ calls.search = 0
        /\ calls.summary = 0
        /\ searched = <<>>
        /\ findings = <<>>
        /\ pc \in {"write_report", "editor", "revise", "returned", "error"}
        /\ pc = "write_report" => calls.write_report = 0
        /\ pc # "write_report" => calls.write_report = 1
        /\ pc = "error" => error = "llm"
        /\ report # Nothing => The(report).sources = <<>>
        /\ pc \in {"editor", "revise", "returned"} => report # Nothing

C38_Witness ==
    /\ decision = "modify"
    /\ Len(The(presented).tasks) = MaxTasks
    /\ The(approved_plan).tasks = <<>>
    /\ pc = "returned"
    /\ calls.write_report = 1
    /\ calls.search = 0
    /\ The(report).sources = <<>>

\* the entered query is literally one of the delete words
DeleteWordAsTyped(q) == q \in DELETE_WORDS

\* the entered query is one of the delete words once stripped and lower-cased
DeleteWordStripped(q) == StripLower(q) \in DELETE_WORDS

\* the displayed tasks not removed when Enter, a new query, a declined
\* deletion and a confirmed deletion after a word that is none of the three
\* as typed all keep the task
KeptAsTyped ==
    {i \in 1 .. Len(The(plan).tasks) :
        ~(DeleteWordAsTyped(The(typed)[i].new_query) /\ The(typed)[i].confirm)}

\* the displayed tasks not removed when the word is told after stripping and
\* lower-casing
KeptStripped ==
    {i \in 1 .. Len(The(plan).tasks) :
        ~(DeleteWordStripped(The(typed)[i].new_query) /\ The(typed)[i].confirm)}

\* the edited plan holds, in order, exactly the displayed tasks of kept, each
\* with its id and reasoning and the query as entered, and after them only
\* appended tasks
EditOutcome(kept) ==
    LET tasks == The(plan).tasks
        a == The(typed)
        out == The(The(review).modified_plan).tasks
    IN  /\ Len(out) >= Cardinality(kept)
        /\ \A i \in kept :
            out[Cardinality({j \in kept : j <= i})] =
                ResearchTask(tasks[i].id, a[i].new_query, tasks[i].reasoning)
        /\ \A k \in Cardinality(kept) + 1 .. Len(out) :
            /\ out[k].query = "added"
            /\ out[k].reasoning = "mine"

\* C39 as stated: during a plan edit a task is removed only when the entered
\* query is one of delete, remove or skip and the deletion is then confirmed;
\* a task whose deletion is declined is kept with the entered keyword as query
C39_Original == pc = "edited" => EditOutcome(KeptAsTyped)

\* C39: during a plan edit a task is removed only when the entered query,
\* stripped of surrounding whitespace and lower-cased, is one of delete,
\* remove or skip and the deletion is then confirmed; a task whose deletion is
\* declined is kept and its query becomes the keyword exactly as entered
C39_DeleteNeedsConfirmation == pc = "edited" => EditOutcome(KeptStripped)

\* " Remove " confirmed removes the first task, "skip" declined keeps the
\* second one with "skip" as its query
C39_Witness ==
    /\ pc = "edited"
    /\ Len(The(plan).tasks) = MaxTasks
    /\ The(typed)[1] = [new_query |-> " Remove ", confirm |-> TRUE]
    /\ The(typed)[MaxTasks] = [new_query |-> "skip", confirm |-> FALSE]
    /\ \E k \in 1 .. Len(The(The(review).modified_plan).tasks) :
        The(The(review).modified_plan).tasks[k] =
            ResearchTask(TaskId(MaxTasks), "skip", "why")
    /\ \A k \in 1 .. Len(The(The(review).modified_plan).tasks) :
        The(The(review).modified_plan).tasks[k].id # TaskId(1)
           \/ The(The(review).modified_plan).tasks[k].query = "added"

====
